---- MODULE Spec2Model ----
(***************************************************************************)
(* Process lifecycle core of code_puppy: the agent state registry          *)
(* (code_puppy/state_management.py) and the process dispatcher             *)
(* (code_puppy/process_dispatcher.py).                                     *)
(*                                                                         *)
(* Python's None is the empty tuple and a present value v is <<v>>, so an  *)
(* optional field always holds a tuple.  A dict is a function whose        *)
(* DOMAIN is the set of its keys.                                          *)
(***************************************************************************)
EXTENDS Integers, Sequences, FiniteSets, TLC

VARIABLES
    processes,      \* ProcessDispatcher.processes: agent_id -> ProcessInfo
    agent_states,   \* state_management.agent_states: agent_id -> record
    now,            \* the clock read by time.time() and datetime.now()
    last,           \* the most recent call: its inputs, its outcome, the maps before it
    held,           \* the value a caller of get_agent_state still holds
    lock,           \* the thread inside `with _agent_states_lock`
    threads,        \* registry callers running statement by statement
    workers,        \* dispatcher callers running statement by statement
    command,        \* a build_agent_command call: its arguments and its list
    breaker,        \* the circuit breaker of one server
    retry,          \* a call_with_retry in progress, and how the last one ended
    isolator,       \* the error isolator: server_id -> statistics and quarantine
    dag,            \* a DAGView: its nodes and its execution order
    streak          \* record_failure calls since the last record_success

\* the process lifecycle core without its clock and its call record
lifecycle == <<processes, agent_states, held, lock, threads, workers, command>>

\* the reliability layer and the view
others == <<breaker, retry, isolator, dag, streak>>

\* what the calls taken as one step leave alone
aux == <<lock, threads, workers, command, others>>

vars == <<processes, agent_states, now, last, held, aux>>

----------------------------------------------------------------------------
(* Bounds and input sets *)

MaxTime == 2

AgentIds == {"a1"}
Pids == {11, 12}
\* Popen.returncode of an ended child: 0 on success, -N when signal N killed it
ExitCodes == {0, -1}
Stdouts == {"out"}
Stderrs == {"", "err"}
Models == {<<>>, <<"m">>}

None == <<>>
Some(v) == <<v>>

\* What psutil answers for a pid: pid_exists() False; pid_exists() True and
\* status() not zombie; status() zombie; Process(pid)/status() raising
\* NoSuchProcess; any call raising another exception.
OsAnswers == {"absent", "alive", "zombie", "nosuch", "raises"}

\* ProcessDispatcher.timeout, in clock ticks
timeout == 1

TerminalStatuses == {"completed", "errored", "terminated"}
Statuses == {"running"} \cup TerminalStatuses

----------------------------------------------------------------------------
(* Dict helpers *)

DictSet(d, k, v) == [x \in DOMAIN d \cup {k} |-> IF x = k THEN v ELSE d[x]]
DictDel(d, k) == [x \in DOMAIN d \ {k} |-> d[x]]
EmptyDict == [x \in {} |-> None]

----------------------------------------------------------------------------
(* Agent state registry *)

\* NewAgentState with the visible argument dropped
NewAgentState_Invisible(pid, visible, model, t) ==
    [pid |-> pid, status |-> "running", last_reasoning |-> None,
     result |-> None, start_time |-> t, visible |-> FALSE,
     session_info |-> None, model |-> model]

NewAgentState(pid, visible, model, t) ==
    [pid |-> pid, status |-> "running", last_reasoning |-> None,
     result |-> None, start_time |-> t, visible |-> visible,
     session_info |-> None, model |-> model]

\* add_agent_state: the entry is assigned, whether or not the key is present
add_agent_state(states, agent_id, pid, visible, model, t) ==
    DictSet(states, agent_id, NewAgentState(pid, visible, model, t))

\* MergeStatus assigning the optional fields even when they are None
MergeStatus_Overwrites(state, status, last_reasoning, result) ==
    [state EXCEPT !.status = status,
                  !.last_reasoning = last_reasoning,
                  !.result = result]

MergeStatus(state, status, last_reasoning, result) ==
    [state EXCEPT !.status = status,
                  !.last_reasoning = IF last_reasoning # None THEN last_reasoning ELSE @,
                  !.result = IF result # None THEN result ELSE @]

\* update_agent_status: [raised, states]; raised is the KeyError
update_agent_status(states, agent_id, status, last_reasoning, result) ==
    IF agent_id \notin DOMAIN states
    THEN [raised |-> TRUE, states |-> states]
    ELSE [raised |-> FALSE,
          states |-> [states EXCEPT ![agent_id] =
                         MergeStatus(@, status, last_reasoning, result)]]

\* get_agent_state with the record handed out as it is in the registry
get_agent_state_NoCopy(states, agent_id) ==
    IF agent_id \notin DOMAIN states
    THEN [raised |-> TRUE, value |-> None, live |-> FALSE]
    ELSE [raised |-> FALSE, value |-> Some(states[agent_id]), live |-> TRUE]

\* get_agent_state: [raised, value, live]; raised is the KeyError, value the
\* dict returned, live whether that dict is the registry's own dict object
\* (it is not: the function returns agent_states[agent_id].copy())
get_agent_state(states, agent_id) ==
    IF agent_id \notin DOMAIN states
    THEN [raised |-> TRUE, value |-> None, live |-> FALSE]
    ELSE [raised |-> FALSE, value |-> Some(states[agent_id]), live |-> FALSE]

\* remove_agent_state emptying the whole map
remove_agent_state_Clear(states, agent_id) ==
    EmptyDict

remove_agent_state(states, agent_id) ==
    IF agent_id \in DOMAIN states THEN DictDel(states, agent_id) ELSE states

MarkTerminated(state, result) ==
    [state EXCEPT !.status = "terminated", !.result = Some(result)]

\* One iteration of poll_agent_processes' loop, ans being psutil's answer
\* for state.pid
ReconcileRecord(state, ans) ==
    CASE ans = "absent" ->
            IF state.status \notin TerminalStatuses
            THEN MarkTerminated(state, "Process unexpectedly terminated")
            ELSE state
      [] ans = "zombie" -> MarkTerminated(state, "Process became a zombie")
      [] ans = "nosuch" ->
            IF state.status \notin TerminalStatuses
            THEN MarkTerminated(state, "Process no longer exists")
            ELSE state
      [] OTHER -> state

\* poll_agent_processes that forgets the records it finds ended
poll_agent_processes_Forgets(states, os) ==
    LET swept == [a \in DOMAIN states |-> ReconcileRecord(states[a], os[states[a].pid])]
    IN  [a \in {x \in DOMAIN states : swept[x].status = "running"} |-> swept[a]]

\* poll_agent_processes: every record is inspected, each changes only itself
poll_agent_processes(states, os) ==
    [a \in DOMAIN states |-> ReconcileRecord(states[a], os[states[a].pid])]

----------------------------------------------------------------------------
(* Process dispatcher: pure parts *)

\* ProcessInfo(process, start_time); exit is what process.poll() returns
ProcessInfo(pid, start_time) == [pid |-> pid, start_time |-> start_time, exit |-> None]

PidsInUse(procs, states) ==
    {procs[a].pid : a \in DOMAIN procs} \cup {states[a].pid : a \in DOMAIN states}

ExitNote(exit_code) == "Process terminated with exit code " \o ToString(exit_code)

\* PollExited without its del statement
PollExited_KeepsHandle(procs, states, agent_id) ==
    LET upd == update_agent_status(states, agent_id, "completed", None,
                                   Some(ExitNote(procs[agent_id].exit[1])))
    IN  [procs |-> procs, states |-> upd.states]

\* poll_processes, the handle whose exit code was observed: the handle goes
\* first, a missing registry entry is tolerated
PollExited(procs, states, agent_id) ==
    LET upd == update_agent_status(states, agent_id, "completed", None,
                                   Some(ExitNote(procs[agent_id].exit[1])))
    IN  [procs |-> DictDel(procs, agent_id), states |-> upd.states]

\* PollLost without its del statements
PollLost_KeepsHandle(procs, states, agent_id, result) ==
    [procs |-> procs,
     states |-> update_agent_status(states, agent_id, "terminated", None,
                                    Some(result)).states]

\* poll_processes, pid gone or zombie: the registry is updated first and the
\* handle deleted after it; a KeyError is caught by the enclosing except,
\* which skips the del
PollLost(procs, states, agent_id, result) ==
    LET upd == update_agent_status(states, agent_id, "terminated", None, Some(result))
    IN  IF upd.raised
        THEN [procs |-> procs, states |-> states]
        ELSE [procs |-> DictDel(procs, agent_id), states |-> upd.states]

\* PollAlive with the handle dropped as on the other branches
PollAlive_DropsHandle(procs, states, agent_id) ==
    [procs |-> DictDel(procs, agent_id),
     states |-> update_agent_status(states, agent_id, "running", None, None).states]

\* poll_processes, pid alive: the status is written as running
PollAlive(procs, states, agent_id) ==
    [procs |-> procs,
     states |-> update_agent_status(states, agent_id, "running", None, None).states]

\* PollHandle without the zombie check: a pid that exists counts as alive
PollHandle_NoZombieCheck(procs, states, agent_id, os) ==
    IF procs[agent_id].exit # None
    THEN PollExited(procs, states, agent_id)
    ELSE LET ans == os[procs[agent_id].pid]
         IN  CASE ans = "absent" ->
                    PollLost(procs, states, agent_id, "Process unexpectedly terminated")
               [] ans \in {"alive", "zombie"} -> PollAlive(procs, states, agent_id)
               [] OTHER -> [procs |-> procs, states |-> states]

\* PollHandle giving up the handle when the inspection raises
PollHandle_ErrorDrops(procs, states, agent_id, os) ==
    IF procs[agent_id].exit # None
    THEN PollExited(procs, states, agent_id)
    ELSE LET ans == os[procs[agent_id].pid]
         IN  CASE ans = "absent" ->
                    PollLost(procs, states, agent_id, "Process unexpectedly terminated")
               [] ans = "zombie" ->
                    PollLost(procs, states, agent_id, "Process became a zombie")
               [] ans = "alive" -> PollAlive(procs, states, agent_id)
               [] OTHER -> [procs |-> DictDel(procs, agent_id), states |-> states]

\* One iteration of poll_processes' loop over the tracked handles
PollHandle(procs, states, agent_id, os) ==
    IF procs[agent_id].exit # None
    THEN PollExited(procs, states, agent_id)
    ELSE LET ans == os[procs[agent_id].pid]
         IN  CASE ans = "absent" ->
                    PollLost(procs, states, agent_id, "Process unexpectedly terminated")
               [] ans = "zombie" ->
                    PollLost(procs, states, agent_id, "Process became a zombie")
               [] ans = "alive" -> PollAlive(procs, states, agent_id)
               [] OTHER -> [procs |-> procs, states |-> states]

RECURSIVE PollLoop(_, _, _, _)
PollLoop(todo, procs, states, os) ==
    IF todo = {}
    THEN [procs |-> procs, states |-> states]
    ELSE LET agent_id == CHOOSE x \in todo : TRUE
             step == PollHandle(procs, states, agent_id, os)
         IN  PollLoop(todo \ {agent_id}, step.procs, step.states, os)

\* poll_processes without the registry-wide sweep
poll_processes_NoSweep(procs, states, os) == PollLoop(DOMAIN procs, procs, states, os)

\* poll_processes: the loop over list(self.processes.items()), then the
\* registry-wide sweep.  os is what psutil answers during the call, one
\* answer per pid, read by the loop and by the sweep alike; answers that
\* change over time are those of successive calls.
poll_processes(procs, states, os) ==
    LET looped == PollLoop(DOMAIN procs, procs, states, os)
    IN  [procs |-> looped.procs, states |-> poll_agent_processes(looped.states, os)]

\* Hanging with the elapsed time compared one tick too late
Hanging_OffByOne(procs, t) ==
    {a \in DOMAIN procs : procs[a].exit = None /\ t - procs[a].start_time > timeout + 1}

\* Hanging without the check that the process is still running
Hanging_IncludesExited(procs, t) ==
    {a \in DOMAIN procs : t - procs[a].start_time > timeout}

\* terminate_hanging_processes: the handles it terminates
Hanging(procs, t) ==
    {a \in DOMAIN procs : procs[a].exit = None /\ t - procs[a].start_time > timeout}

\* get_process_status: None, or (is_running, exit_code)
get_process_status(procs, agent_id) ==
    IF agent_id \notin DOMAIN procs
    THEN None
    ELSE LET exit_code == procs[agent_id].exit
             is_running == exit_code = None
         IN  Some(<<is_running, IF is_running THEN None ELSE exit_code>>)

ResultData(agent_id, stdout, stderr, exit_code, t) ==
    [agent_id |-> agent_id, stdout |-> stdout, stderr |-> stderr,
     exit_code |-> exit_code, completed_at |-> t]

\* TimedOutResult with the explanation left out
TimedOutResult_NoStderr(agent_id, t) == ResultData(agent_id, "", "", -1, t)

\* wait_for_process: what its TimeoutExpired branch returns
TimedOutResult(agent_id, t) == ResultData(agent_id, "", "Process timed out", -1, t)

\* Signals with the kill sent whether or not the grace wait expired
Signals_AlwaysKill(exits_in_grace) == <<"terminate", "kill">>

\* terminate(), wait(timeout=5), and kill() when the wait expired
Signals(exits_in_grace) ==
    IF exits_in_grace THEN <<"terminate">> ELSE <<"terminate", "kill">>

----------------------------------------------------------------------------
(* What a caller holds after get_agent_state *)

\* The held value h is [id, value, live].  When live, h.value is the very
\* dict stored under h.id: it shows every later write to that dict, until
\* the entry is deleted or, for the ids in replaced, bound to a new dict.
Follow(h, states, replaced) ==
    IF h = None \/ ~h[1].live THEN h
    ELSE IF h[1].id \in replaced \/ h[1].id \notin DOMAIN states
         THEN Some([h[1] EXCEPT !.live = FALSE])
         ELSE Some([h[1] EXCEPT !.value = states[h[1].id]])

Threads == {"t1", "t2"}
\* A registry caller: the call it runs, where it stands in it, the record it
\* is writing as it was before its first write and as it will be after its
\* last, and what it read.
IdleThread ==
    [pc |-> "idle", op |-> "none", id |-> None, args |-> EmptyDict, os |-> EmptyDict,
     todo |-> {}, before |-> None, after |-> None,
     seen |-> None, torn |-> FALSE, raised |-> FALSE]
\* A dispatcher caller: the call it runs, where it stands in it, the
\* ProcessInfo objects it refers to, the ids its loop has yet to visit, the
\* handles it deleted and whether the call ended with KeyError.
IdleWorker ==
    [pc |-> "idle", op |-> "none", id |-> None, os |-> EmptyDict,
     items |-> EmptyDict, todo |-> {}, current_time |-> 0,
     removed |-> {}, raised |-> FALSE]

----------------------------------------------------------------------------
(* The reliability layer and the view as they are constructed *)

failure_threshold == 3
cooldown == 1
trial_count == 2

NewBreaker == [state |-> "closed", failures |-> 0, successes |-> 0, opened_at |-> 0]
\* A call_with_retry: the outcomes the operation will have, attempt by
\* attempt, the attempts left, the number of times the operation was invoked,
\* the calls made on the breaker, the breaker as the call found it, and how
\* the call ended
IdleRetry ==
    [pc |-> "idle", given |-> <<>>, max_attempts |-> 0, attempts_left |-> 0,
     invoked |-> 0, log |-> <<>>, start |-> None, result |-> None]
\* The servers the isolator tracks; every server starts with empty statistics
Servers == {"s1", "s2"}
quarantine_threshold == 5
\* Two of the categories connection, timeout, protocol, internal, unknown
ErrorCategories == {"connection", "unknown"}
NewStats ==
    [counts |-> [c \in ErrorCategories |-> 0], total |-> 0, last_failure |-> None,
     quarantined |-> FALSE, reason |-> "", quarantined_at |-> None]
NewIsolator == [s \in Servers |-> NewStats]
\* A node of the view: the name, the timestamp and the metadata, which no
\* operation of the view reads back, are left out
DAGNode(node_id, node_type, status) ==
    [node_id |-> node_id, node_type |-> node_type, status |-> status,
     children |-> <<>>, parents |-> <<>>]
DemoOrder ==
    <<"demo_1", "demo_2", "demo_3", "demo_4", "demo_5", "demo_6", "demo_7", "demo_8", "demo_9">>
DemoIds == {DemoOrder[i] : i \in DOMAIN DemoOrder}
DemoNode(node_id) ==
    CASE node_id \in {"demo_1", "demo_3"} -> DAGNode(node_id, "agent", "completed")
      [] node_id \in {"demo_2", "demo_5", "demo_6"} -> DAGNode(node_id, "tool", "completed")
      [] node_id = "demo_4" -> DAGNode(node_id, "decision", "completed")
      [] node_id = "demo_7" -> DAGNode(node_id, "tool", "running")
      [] node_id = "demo_8" -> DAGNode(node_id, "agent", "pending")
      [] OTHER -> DAGNode(node_id, "task", "failed")
add_demo_nodes(d) ==
    [nodes |-> [x \in DOMAIN d.nodes \cup DemoIds |->
                   IF x \in DemoIds THEN DemoNode(x) ELSE d.nodes[x]],
     execution_order |-> d.execution_order \o DemoOrder]
NewDag == add_demo_nodes([nodes |-> EmptyDict, execution_order |-> <<>>])

InitOthers ==
    /\ breaker = NewBreaker
    /\ retry = IdleRetry
    /\ isolator = NewIsolator
    /\ dag = NewDag
    /\ streak = 0

----------------------------------------------------------------------------
(* The record of the last call *)

\* path names the branch of the handler that ran
Call(op, path, id, os, ret, raised, appended, signals) ==
    [op |-> op, path |-> path, id |-> id, os |-> os, ret |-> ret, raised |-> raised,
     appended |-> appended, signals |-> signals, args |-> EmptyDict,
     pre_processes |-> processes, pre_states |-> agent_states, pre_held |-> held,
     pre_breaker |-> breaker, pre_isolator |-> isolator, pre_dag |-> dag]

NoCall ==
    [op |-> "none", path |-> "", id |-> None, os |-> EmptyDict, ret |-> None, raised |-> FALSE,
     appended |-> <<>>, signals |-> EmptyDict, args |-> EmptyDict,
     pre_processes |-> EmptyDict, pre_states |-> EmptyDict, pre_held |-> None,
     pre_breaker |-> NewBreaker, pre_isolator |-> NewIsolator, pre_dag |-> NewDag]

Init ==
    /\ processes = EmptyDict
    /\ agent_states = EmptyDict
    /\ now = 0
    /\ last = NoCall
    /\ held = None
    /\ lock = None
    /\ threads = [t \in Threads |-> IdleThread]
    /\ workers = [t \in Threads |-> IdleWorker]
    /\ command = None
    /\ InitOthers

----------------------------------------------------------------------------
(* Environment *)

Tick ==
    /\ now < MaxTime
    /\ now' = now + 1
    /\ last' = NoCall
    /\ UNCHANGED <<processes, agent_states>>
    /\ UNCHANGED <<held, aux>>

\* A tracked child ends by itself: from now on process.poll() returns its code
ProcessExit(a, code) ==
    /\ a \in DOMAIN processes
    /\ processes[a].exit = None
    /\ processes' = [processes EXCEPT ![a].exit = Some(code)]
    /\ last' = NoCall
    /\ UNCHANGED <<agent_states, now>>
    /\ UNCHANGED <<held, aux>>

----------------------------------------------------------------------------
(* Registry operations *)

Add(a, pid, visible, model) ==
    /\ agent_states' = add_agent_state(agent_states, a, pid, visible, model, now)
    /\ last' = [Call("add", "", Some(a), EmptyDict, None, FALSE, <<>>, EmptyDict)
                    EXCEPT !.args = [pid |-> pid, visible |-> visible, model |-> model]]
    /\ UNCHANGED <<processes, now>>
    /\ held' = Follow(held, agent_states', {a})
    /\ UNCHANGED aux

\* update_agent_status called by another component of the application
Update(a, status, last_reasoning, result) ==
    LET upd == update_agent_status(agent_states, a, status, last_reasoning, result)
    IN  /\ agent_states' = upd.states
        /\ last' = [Call("update", "", Some(a), EmptyDict, None, upd.raised, <<>>, EmptyDict)
                        EXCEPT !.args = [status |-> status, last_reasoning |-> last_reasoning,
                                         result |-> result]]
        /\ UNCHANGED <<processes, now>>
        /\ held' = Follow(held, agent_states', {})
        /\ UNCHANGED aux

\* get_agent_state: a copy of the record, or KeyError
Get(a) ==
    LET got == get_agent_state(agent_states, a)
    IN  /\ last' = Call("get", IF got.raised THEN "missing" ELSE "found", Some(a),
                        EmptyDict, got.value, got.raised, <<>>, EmptyDict)
        /\ UNCHANGED <<processes, agent_states, now>>
        /\ UNCHANGED <<held, aux>>

Remove(a) ==
    /\ agent_states' = remove_agent_state(agent_states, a)
    /\ last' = Call("remove", "", Some(a), EmptyDict, None, FALSE, <<>>, EmptyDict)
    /\ UNCHANGED <<processes, now>>
    /\ held' = Follow(held, agent_states', {})
    /\ UNCHANGED aux

Reconcile(os) ==
    /\ agent_states' = poll_agent_processes(agent_states, os)
    /\ last' = Call("reconcile", "", None, os, None, FALSE, <<>>, EmptyDict)
    /\ UNCHANGED <<processes, now>>
    /\ held' = Follow(held, agent_states', {})
    /\ UNCHANGED aux

----------------------------------------------------------------------------
(* Dispatcher operations *)

\* spawn_agent, subprocess.Popen raising: nothing was stored yet
SpawnPopenFails(a) ==
    /\ last' = Call("spawn", "popen_fails", Some(a), EmptyDict, None, TRUE, <<>>, EmptyDict)
    /\ UNCHANGED <<processes, agent_states, now>>
    /\ UNCHANGED <<held, aux>>

SpawnStore(a, pid, visible, model) ==
    /\ processes' = DictSet(processes, a, ProcessInfo(pid, now))
    /\ agent_states' = add_agent_state(agent_states, a, pid, visible, model, now)

\* spawn_agent with background=True
SpawnBackground(a, pid, visible, model) ==
    /\ SpawnStore(a, pid, visible, model)
    /\ last' = Call("spawn", "background", Some(a), EmptyDict, Some(a), FALSE, <<>>, EmptyDict)
    /\ UNCHANGED now
    /\ held' = Follow(held, agent_states', {a})
    /\ UNCHANGED aux

\* spawn_agent with background=False: monitor_agent_process waits for the
\* child, appends its result to the message history; the handle and the
\* registry entry stay as stored
SpawnForeground(a, pid, visible, model, stdout, stderr, code) ==
    /\ processes' = DictSet(processes, a, [ProcessInfo(pid, now) EXCEPT !.exit = Some(code)])
    /\ agent_states' = add_agent_state(agent_states, a, pid, visible, model, now)
    /\ last' = Call("spawn", "foreground", Some(a), EmptyDict, Some(a), FALSE,
                    <<ResultData(a, stdout, stderr, code, now)>>, EmptyDict)
    /\ UNCHANGED now
    /\ held' = Follow(held, agent_states', {a})
    /\ UNCHANGED aux

\* spawn_agent with background=False, monitor_agent_process raising (for one,
\* communicate() failing to decode the child's output): the except clause
\* re-raises, after the handle and the registry entry were stored
SpawnMonitorFails(a, pid, visible, model) ==
    /\ SpawnStore(a, pid, visible, model)
    /\ last' = Call("spawn", "monitor_fails", Some(a), EmptyDict, None, TRUE, <<>>, EmptyDict)
    /\ UNCHANGED now
    /\ held' = Follow(held, agent_states', {a})
    /\ UNCHANGED aux

\* uuid.uuid4(): an id no map holds
FreshIds == AgentIds \ (DOMAIN processes \cup DOMAIN agent_states)

Spawn ==
    \E a \in FreshIds, pid \in Pids, visible \in BOOLEAN, model \in Models :
        \/ SpawnPopenFails(a)
        \/ SpawnBackground(a, pid, visible, model)
        \/ \E stdout \in Stdouts, stderr \in Stderrs, code \in ExitCodes :
               SpawnForeground(a, pid, visible, model, stdout, stderr, code)
        \/ SpawnMonitorFails(a, pid, visible, model)

\* monitor_agent_process on a tracked handle's process: communicate() returns
\* when the child has ended; the result is appended to the message history
Monitor(a, stdout, stderr, code) ==
    /\ a \in DOMAIN processes
    /\ processes[a].exit \in {None, Some(code)}
    /\ processes' = [processes EXCEPT ![a].exit = Some(code)]
    /\ last' = Call("monitor", "", Some(a), EmptyDict,
                    Some(ResultData(a, stdout, stderr, code, now)), FALSE,
                    <<ResultData(a, stdout, stderr, code, now)>>, EmptyDict)
    /\ UNCHANGED <<agent_states, now>>
    /\ UNCHANGED <<held, aux>>

TerminateHangingWith(graceful, args) ==
    LET hanging == Hanging(processes, now)
    IN  /\ graceful \subseteq hanging
        /\ processes' = [a \in DOMAIN processes \ hanging |-> processes[a]]
        /\ last' = [Call("terminate_hanging", "", None, EmptyDict, hanging, FALSE, <<>>,
                         [a \in hanging |-> Signals(a \in graceful)])
                        EXCEPT !.args = args]
        /\ UNCHANGED <<agent_states, now>>
        /\ UNCHANGED <<held, aux>>

TerminateHanging(graceful) == TerminateHangingWith(graceful, EmptyDict)

GetStatus(a) ==
    /\ last' = Call("status", "", Some(a), EmptyDict, get_process_status(processes, a),
                    FALSE, <<>>, EmptyDict)
    /\ UNCHANGED <<processes, agent_states, now>>
    /\ UNCHANGED <<held, aux>>

Poll(os) ==
    LET done == poll_processes(processes, agent_states, os)
    IN  /\ processes' = done.procs
        /\ agent_states' = done.states
        /\ last' = Call("poll", "", None, os, None, FALSE, <<>>, EmptyDict)
        /\ UNCHANGED now
        /\ held' = Follow(held, agent_states', {})
        /\ UNCHANGED aux

\* wait_for_process on an id the dispatcher does not track
WaitUnknownWith(a, args) ==
    /\ a \notin DOMAIN processes
    /\ last' = [Call("wait", "unknown", Some(a), EmptyDict, None, FALSE, <<>>, EmptyDict)
                    EXCEPT !.args = args]
    /\ UNCHANGED <<processes, agent_states, now>>
    /\ UNCHANGED <<held, aux>>

WaitUnknown(a) == WaitUnknownWith(a, EmptyDict)

\* wait_for_process, communicate() returning: the child had ended, or ends
\* within the timeout
WaitExitedWith(a, stdout, stderr, code, args) ==
    /\ a \in DOMAIN processes
    /\ processes[a].exit \in {None, Some(code)}
    /\ processes' = DictDel(processes, a)
    /\ last' = [Call("wait", "exited", Some(a), EmptyDict,
                     Some(ResultData(a, stdout, stderr, code, now)), FALSE, <<>>, EmptyDict)
                    EXCEPT !.args = args]
    /\ UNCHANGED <<agent_states, now>>
    /\ UNCHANGED <<held, aux>>

WaitExited(a, stdout, stderr, code) == WaitExitedWith(a, stdout, stderr, code, EmptyDict)

\* wait_for_process, communicate() raising TimeoutExpired
WaitTimedOutWith(a, exits_in_grace, args) ==
    /\ a \in DOMAIN processes
    /\ processes[a].exit = None
    /\ processes' = DictDel(processes, a)
    /\ last' = [Call("wait", "timeout", Some(a), EmptyDict,
                     Some(TimedOutResult(a, now)), FALSE, <<>>,
                     [x \in {a} |-> Signals(exits_in_grace)])
                    EXCEPT !.args = args]
    /\ UNCHANGED <<agent_states, now>>
    /\ UNCHANGED <<held, aux>>

WaitTimedOut(a, exits_in_grace) == WaitTimedOutWith(a, exits_in_grace, EmptyDict)

\* wait_for_process, communicate() raising another exception e, msg = str(e)
WaitErrorWith(a, msg, args) ==
    /\ a \in DOMAIN processes
    /\ processes' = DictDel(processes, a)
    /\ last' = [Call("wait", "error", Some(a), EmptyDict,
                     Some(ResultData(a, "", "Error waiting for process: " \o msg, -1, now)),
                     FALSE, <<>>, EmptyDict)
                    EXCEPT !.args = args]
    /\ UNCHANGED <<agent_states, now>>
    /\ UNCHANGED <<held, aux>>

WaitError(a, msg) == WaitErrorWith(a, msg, EmptyDict)

ErrorTexts == {"", "boom"}

Wait ==
    \E a \in AgentIds :
        \/ WaitUnknown(a)
        \/ \E stdout \in Stdouts, stderr \in Stderrs, code \in ExitCodes :
               WaitExited(a, stdout, stderr, code)
        \/ \E g \in BOOLEAN : WaitTimedOut(a, g)
        \/ \E msg \in ErrorTexts : WaitError(a, msg)

OsReports == [PidsInUse(processes, agent_states) -> OsAnswers]

Next ==
    \/ Tick
    \/ \E a \in AgentIds, code \in ExitCodes : ProcessExit(a, code)
    \/ \E a \in AgentIds : Remove(a)
    \/ \E os \in OsReports : Reconcile(os)
    \/ Spawn
    \/ \E a \in AgentIds, stdout \in Stdouts, stderr \in Stderrs, code \in ExitCodes :
           Monitor(a, stdout, stderr, code)
    \/ \E g \in SUBSET AgentIds : TerminateHanging(g)
    \/ \E a \in AgentIds : GetStatus(a)
    \/ \E os \in OsReports : Poll(os)
    \/ Wait

Spec == Init /\ [][Next]_vars

\* wait_for_process with the timeout the caller gives: "timeout or
\* self.timeout" is what communicate() is called with
Timeouts == {None, Some(0), Some(2)}

communicate_timeout(given) ==
    IF given = None \/ given[1] = 0 THEN timeout ELSE given[1]

WaitArgs(given) ==
    [x \in {"timeout", "communicate"} |->
        IF x = "timeout" THEN given ELSE Some(communicate_timeout(given))]

WaitFor(a, given) ==
    \/ WaitUnknownWith(a, [x \in {"timeout"} |-> given])
    \/ \E stdout \in Stdouts, stderr \in Stderrs, code \in ExitCodes :
           WaitExitedWith(a, stdout, stderr, code, WaitArgs(given))
    \/ \E g \in BOOLEAN : WaitTimedOutWith(a, g, WaitArgs(given))
    \/ \E msg \in ErrorTexts : WaitErrorWith(a, msg, WaitArgs(given))

NextWait ==
    \/ Tick
    \/ \E a \in AgentIds, code \in ExitCodes : ProcessExit(a, code)
    \/ Spawn
    \/ \E a \in AgentIds, given \in Timeouts : WaitFor(a, given)

SpecWait == Init /\ [][NextWait]_vars

\* The registry alone, driven through its public functions
Reasonings == {None, Some("thinking")}
Results == {None, Some("done")}

NextRegistry ==
    \/ Tick
    \/ \E a \in AgentIds, pid \in Pids, visible \in BOOLEAN, model \in Models :
           Add(a, pid, visible, model)
    \/ \E a \in AgentIds, status \in Statuses, lr \in Reasonings, res \in Results :
           Update(a, status, lr, res)
    \/ \E a \in AgentIds : Get(a)
    \/ \E a \in AgentIds : Remove(a)
    \/ \E os \in OsReports : Reconcile(os)

SpecRegistry == Init /\ [][NextRegistry]_vars

\* Registering agents: add_agent_state called directly and through spawn_agent
NextRegister ==
    \/ Tick
    \/ \E a \in AgentIds, pid \in Pids, visible \in BOOLEAN, model \in Models :
           Add(a, pid, visible, model)
    \/ \E a \in AgentIds : Get(a)
    \/ \E a \in AgentIds : Remove(a)
    \/ \E a \in AgentIds, code \in ExitCodes : ProcessExit(a, code)
    \/ Spawn
    \/ \E os \in OsReports : Poll(os)

SpecRegister == Init /\ [][NextRegister]_vars

\* Two registry entries side by side.  The records are added from two
\* argument profiles and the clock stands still, which keeps two records
\* with every combination of status, last_reasoning and result in reach.
PairIds == {"a1", "a2"}
PairProfiles ==
    {[pid |-> 11, visible |-> FALSE, model |-> None],
     [pid |-> 12, visible |-> TRUE, model |-> Some("m")]}

NextPair ==
    \/ \E a \in PairIds, p \in PairProfiles : Add(a, p.pid, p.visible, p.model)
    \/ \E a \in PairIds, status \in Statuses, lr \in Reasonings, res \in Results :
           Update(a, status, lr, res)
    \/ \E a \in PairIds : Get(a)
    \/ \E a \in PairIds : Remove(a)

SpecPair == Init /\ [][NextPair]_vars

\* Two background agents, their timeouts and their forced ends; graceful
\* names the processes that exit within the grace wait
InGrace(graceful) == [x \in {"graceful"} |-> graceful]

NextHanging ==
    \/ Tick
    \/ \E a \in PairIds \ (DOMAIN processes \cup DOMAIN agent_states) :
           SpawnBackground(a, IF a = "a1" THEN 11 ELSE 12, FALSE, None)
    \/ \E a \in PairIds, code \in ExitCodes : ProcessExit(a, code)
    \/ \E graceful \in SUBSET PairIds : TerminateHangingWith(graceful, InGrace(graceful))
    \/ \E a \in PairIds, g \in BOOLEAN :
           WaitTimedOutWith(a, g, InGrace(IF g THEN {a} ELSE {}))

SpecHanging == Init /\ [][NextHanging]_vars

\* Two background agents under poll() and reconcile()
SweepReports == [PidsInUse(processes, agent_states) -> {"alive", "absent", "zombie"}]

NextSweep ==
    \/ Tick
    \/ \E a \in PairIds \ (DOMAIN processes \cup DOMAIN agent_states) :
           SpawnBackground(a, IF a = "a1" THEN 11 ELSE 12, a = "a1", None)
    \/ \E a \in PairIds : ProcessExit(a, 0)
    \/ \E os \in SweepReports : Poll(os)
    \/ \E os \in SweepReports : Reconcile(os)

SpecSweep == Init /\ [][NextSweep]_vars

\* The process of agent a has ended: its handle reports an exit code, or the
\* dispatcher ended it or saw it end and dropped the handle
HasEnded(a) ==
    \/ a \in DOMAIN processes /\ processes[a].exit # None
    \/ a \notin DOMAIN processes /\ a \in DOMAIN agent_states

\* What psutil answers without raising, a pid whose process has ended being
\* reported as absent, as a zombie, or as gone between two inspections
QuietReports ==
    {os \in [PidsInUse(processes, agent_states) -> OsAnswers \ {"raises"}] :
        \A a \in AgentIds :
            /\ (HasEnded(a) /\ a \in DOMAIN processes) =>
                   os[processes[a].pid] \in {"absent", "zombie", "nosuch"}
            /\ (HasEnded(a) /\ a \in DOMAIN agent_states) =>
                   os[agent_states[a].pid] \in {"absent", "zombie", "nosuch"}}

QuietPoll == \E os \in QuietReports : Poll(os)

\* A dispatcher whose processes end by themselves, by terminate_hanging or
\* by wait, under a poller
NextPropagate ==
    \/ Tick
    \/ \E a \in AgentIds, code \in ExitCodes : ProcessExit(a, code)
    \/ \E a \in AgentIds : Remove(a)
    \/ Spawn
    \/ \E g \in SUBSET AgentIds : TerminateHanging(g)
    \/ \E a \in AgentIds, stdout \in Stdouts, stderr \in Stderrs, code \in ExitCodes :
           WaitExited(a, stdout, stderr, code)
    \/ \E a \in AgentIds, g \in BOOLEAN : WaitTimedOut(a, g)
    \/ \E os \in OsReports : Poll(os)

\* poll() keeps being called, and the OS keeps answering without raising
SpecPropagate == Init /\ [][NextPropagate]_vars /\ WF_vars(QuietPoll)

\* A caller that keeps what get_agent_state returned, looks at it again after
\* later registry calls, and writes to it.
GetHold(a) ==
    LET got == get_agent_state(agent_states, a)
    IN  /\ last' = Call("get", IF got.raised THEN "missing" ELSE "found", Some(a),
                        EmptyDict, got.value, got.raised, <<>>, EmptyDict)
        /\ held' = IF got.raised THEN held
                   ELSE Some([id |-> a, value |-> got.value[1], live |-> got.live])
        /\ UNCHANGED <<processes, agent_states, now, aux>>

HeldEdits ==
    {[field |-> "status", value |-> "errored"],
     [field |-> "result", value |-> Some("edited")]}

\* The caller assigns to a key of the dict it holds
MutateHeld(e) ==
    /\ held # None
    /\ held[1].value[e.field] # e.value
    /\ LET edited == [held[1].value EXCEPT ![e.field] = e.value]
       IN  /\ held' = Some([held[1] EXCEPT !.value = edited])
           /\ agent_states' = IF held[1].live
                               THEN [agent_states EXCEPT ![held[1].id] = edited]
                               ELSE agent_states
    /\ last' = Call("mutate_held", "", Some(held[1].id), EmptyDict, None, FALSE, <<>>, EmptyDict)
    /\ UNCHANGED <<processes, now, aux>>

SnapshotProfile == [pid |-> 12, visible |-> TRUE, model |-> Some("m")]

NextSnapshot ==
    \/ \E a \in AgentIds :
           Add(a, SnapshotProfile.pid, SnapshotProfile.visible, SnapshotProfile.model)
    \/ \E a \in AgentIds, status \in Statuses, lr \in Reasonings, res \in Results :
           Update(a, status, lr, res)
    \/ \E a \in AgentIds : GetHold(a)
    \/ \E a \in AgentIds : Remove(a)
    \/ \E os \in OsReports : Reconcile(os)
    \/ \E e \in HeldEdits : MutateHeld(e)

SpecSnapshot == Init /\ [][NextSnapshot]_vars

----------------------------------------------------------------------------
(* Registry calls statement by statement.  Every registry function runs its
   body inside `with _agent_states_lock`; a thread enters the function,
   acquires the lock, runs the statements of the body one at a time and
   releases the lock when the with block is left, by return or by raise. *)

\* The lock with its mutual exclusion taken away
CanAcquire_Always(l) == TRUE

\* threading.Lock.acquire succeeds when no thread holds the lock
CanAcquire(l) == l = None

ThreadUpdates ==
    {[status |-> "completed", last_reasoning |-> None, result |-> Some("done")],
     [status |-> "running", last_reasoning |-> Some("thinking"), result |-> None],
     [status |-> "errored", last_reasoning |-> Some("thinking"), result |-> Some("done")]}

ThreadCalls ==
    {[op |-> "add", id |-> Some(a), args |-> SnapshotProfile, os |-> EmptyDict] :
        a \in AgentIds}
    \cup {[op |-> "update", id |-> Some(a), args |-> u, os |-> EmptyDict] :
            a \in AgentIds, u \in ThreadUpdates}
    \cup {[op |-> o, id |-> Some(a), args |-> EmptyDict, os |-> EmptyDict] :
            o \in {"get", "remove"}, a \in AgentIds}
    \cup {[op |-> "list", id |-> None, args |-> EmptyDict, os |-> EmptyDict]}
    \cup {[op |-> "reconcile", id |-> None, args |-> EmptyDict, os |-> os] :
            os \in [{SnapshotProfile.pid} -> OsAnswers]}

\* The thread calls the function and reaches the with statement
Enter(t, c) ==
    /\ threads[t].pc = "idle"
    /\ threads' = [threads EXCEPT ![t] =
           [IdleThread EXCEPT !.pc = "acquire", !.op = c.op, !.id = c.id,
                              !.args = c.args, !.os = c.os]]
    /\ UNCHANGED <<processes, agent_states, now, last, held, lock, workers, command, others>>

Acquire(t) ==
    /\ threads[t].pc = "acquire"
    /\ CanAcquire(lock)
    /\ lock' = Some(t)
    /\ threads' = [threads EXCEPT ![t].pc = "body",
                                  ![t].todo = IF threads[t].op = "reconcile"
                                              THEN DOMAIN agent_states ELSE {}]
    /\ UNCHANGED <<processes, agent_states, now, last, held, workers, command, others>>

\* The lock kept when the body raised
Release_KeepsLockOnError(t) ==
    /\ threads[t].pc = "release"
    /\ lock' = IF lock = Some(t) /\ ~threads[t].raised THEN None ELSE lock
    /\ threads' = [threads EXCEPT ![t].pc = "idle", ![t].before = None, ![t].after = None]
    /\ UNCHANGED <<processes, agent_states, now, last, held, workers, command, others>>

\* Leaving the with block
Release(t) ==
    /\ threads[t].pc = "release"
    /\ lock' = IF lock = Some(t) THEN None ELSE lock
    /\ threads' = [threads EXCEPT ![t].pc = "idle", ![t].before = None, ![t].after = None]
    /\ UNCHANGED <<processes, agent_states, now, last, held, workers, command, others>>

\* Thread u has written a part of what it is writing to a's record
MidWrite(u, a) ==
    /\ threads[u].before # None
    /\ threads[u].id = Some(a)
    /\ a \in DOMAIN agent_states
    /\ agent_states[a] \notin {threads[u].before[1], threads[u].after[1]}

\* What a read of a's record by thread t shows is a part of another thread's write
Torn(t, a) == \E u \in Threads \ {t} : MidWrite(u, a)

\* add_agent_state, remove_agent_state: one assignment, one del
BodyAdd(t) ==
    /\ threads[t].pc = "body" /\ threads[t].op = "add"
    /\ agent_states' = add_agent_state(agent_states, threads[t].id[1], threads[t].args.pid,
                                       threads[t].args.visible, threads[t].args.model, now)
    /\ threads' = [threads EXCEPT ![t].pc = "release"]
    /\ UNCHANGED <<processes, now, last, held, lock, workers, command, others>>

BodyRemove(t) ==
    /\ threads[t].pc = "body" /\ threads[t].op = "remove"
    /\ agent_states' = remove_agent_state(agent_states, threads[t].id[1])
    /\ threads' = [threads EXCEPT ![t].pc = "release"]
    /\ UNCHANGED <<processes, now, last, held, lock, workers, command, others>>

\* get_agent_state: the membership test and the copy
BodyGet(t) ==
    /\ threads[t].pc = "body" /\ threads[t].op = "get"
    /\ LET got == get_agent_state(agent_states, threads[t].id[1])
       IN  threads' = [threads EXCEPT ![t].pc = "release",
                                      ![t].raised = got.raised,
                                      ![t].seen = got.value,
                                      ![t].torn = Torn(t, threads[t].id[1])]
    /\ UNCHANGED <<processes, agent_states, now, last, held, lock, workers, command, others>>

\* _list_running_agents: the records whose status reads "running"
BodyList(t) ==
    /\ threads[t].pc = "body" /\ threads[t].op = "list"
    /\ LET running == {a \in DOMAIN agent_states : agent_states[a].status = "running"}
       IN  threads' = [threads EXCEPT ![t].pc = "release",
                                      ![t].seen = Some([a \in running |-> agent_states[a]]),
                                      ![t].torn = \E a \in DOMAIN agent_states : Torn(t, a)]
    /\ UNCHANGED <<processes, agent_states, now, last, held, lock, workers, command, others>>

\* update_agent_status: the membership test, then up to three assignments
BodyUpdate(t) ==
    /\ threads[t].pc = "body" /\ threads[t].op = "update"
    /\ LET a == threads[t].id[1]
           u == threads[t].args
       IN  threads' =
               IF a \notin DOMAIN agent_states
               THEN [threads EXCEPT ![t].pc = "release", ![t].raised = TRUE]
               ELSE [threads EXCEPT
                        ![t].pc = "w_status",
                        ![t].before = Some(agent_states[a]),
                        ![t].after = Some(MergeStatus(agent_states[a], u.status,
                                                      u.last_reasoning, u.result))]
    /\ UNCHANGED <<processes, agent_states, now, last, held, lock, workers, command, others>>

\* agent_states[agent_id][field] = value; KeyError when the entry is gone
WriteField(t, field, value, pc) ==
    LET a == threads[t].id[1]
    IN  IF a \in DOMAIN agent_states
        THEN /\ agent_states' = [agent_states EXCEPT ![a][field] = value]
             /\ threads' = [threads EXCEPT ![t].pc = pc]
        ELSE /\ agent_states' = agent_states
             /\ threads' = [threads EXCEPT ![t].pc = "release", ![t].raised = TRUE]

UpdateStatus(t) ==
    /\ threads[t].pc = "w_status"
    /\ WriteField(t, "status", threads[t].args.status, "w_reasoning")
    /\ UNCHANGED <<processes, now, last, held, lock, workers, command, others>>

UpdateReasoning(t) ==
    /\ threads[t].pc = "w_reasoning"
    /\ IF threads[t].args.last_reasoning # None
       THEN WriteField(t, "last_reasoning", threads[t].args.last_reasoning, "w_result")
       ELSE /\ threads' = [threads EXCEPT ![t].pc = "w_result"]
            /\ agent_states' = agent_states
    /\ UNCHANGED <<processes, now, last, held, lock, workers, command, others>>

UpdateResult(t) ==
    /\ threads[t].pc = "w_result"
    /\ IF threads[t].args.result # None
       THEN WriteField(t, "result", threads[t].args.result, "release")
       ELSE /\ threads' = [threads EXCEPT ![t].pc = "release"]
            /\ agent_states' = agent_states
    /\ UNCHANGED <<processes, now, last, held, lock, workers, command, others>>

\* poll_agent_processes: the next record of list(agent_states.items()), the
\* inspection of its pid and the test of its status
BodyReconcile(t) ==
    /\ threads[t].pc = "body" /\ threads[t].op = "reconcile"
    /\ IF threads[t].todo \cap DOMAIN agent_states = {}
       THEN threads' = [threads EXCEPT ![t].pc = "release", ![t].todo = {}]
       ELSE LET a == CHOOSE x \in threads[t].todo \cap DOMAIN agent_states : TRUE
                state == agent_states[a]
                new == ReconcileRecord(state, threads[t].os[state.pid])
            IN  threads' =
                    IF new = state
                    THEN [threads EXCEPT ![t].todo = @ \ {a}]
                    ELSE [threads EXCEPT ![t].pc = "r_status", ![t].id = Some(a),
                                         ![t].todo = @ \ {a},
                                         ![t].before = Some(state), ![t].after = Some(new)]
    /\ UNCHANGED <<processes, agent_states, now, last, held, lock, workers, command, others>>

ReconcileStatus(t) ==
    /\ threads[t].pc = "r_status"
    /\ WriteField(t, "status", threads[t].after[1].status, "r_result")
    /\ UNCHANGED <<processes, now, last, held, lock, workers, command, others>>

ReconcileResult(t) ==
    /\ threads[t].pc = "r_result"
    /\ LET a == threads[t].id[1]
       IN  IF a \in DOMAIN agent_states
           THEN /\ agent_states' = [agent_states EXCEPT ![a].result = threads[t].after[1].result]
                /\ threads' = [threads EXCEPT ![t].pc = "body", ![t].id = None,
                                              ![t].before = None, ![t].after = None]
           ELSE /\ agent_states' = agent_states
                /\ threads' = [threads EXCEPT ![t].pc = "body", ![t].id = None,
                                              ![t].before = None, ![t].after = None]
    /\ UNCHANGED <<processes, now, last, held, lock, workers, command, others>>

NextThreads ==
    \/ \E t \in Threads, c \in ThreadCalls : Enter(t, c)
    \/ \E t \in Threads : Acquire(t)
    \/ \E t \in Threads : Release(t)
    \/ \E t \in Threads : BodyAdd(t)
    \/ \E t \in Threads : BodyRemove(t)
    \/ \E t \in Threads : BodyGet(t)
    \/ \E t \in Threads : BodyList(t)
    \/ \E t \in Threads : BodyUpdate(t)
    \/ \E t \in Threads : UpdateStatus(t)
    \/ \E t \in Threads : UpdateReasoning(t)
    \/ \E t \in Threads : UpdateResult(t)
    \/ \E t \in Threads : BodyReconcile(t)
    \/ \E t \in Threads : ReconcileStatus(t)
    \/ \E t \in Threads : ReconcileResult(t)

SpecThreads == Init /\ [][NextThreads]_vars

\* The steps of a thread inside its with block, and its leaving it
ThreadRuns(t) ==
    \/ Release(t)
    \/ BodyAdd(t)
    \/ BodyRemove(t)
    \/ BodyGet(t)
    \/ BodyList(t)
    \/ BodyUpdate(t)
    \/ UpdateStatus(t)
    \/ UpdateReasoning(t)
    \/ UpdateResult(t)
    \/ BodyReconcile(t)
    \/ ReconcileStatus(t)
    \/ ReconcileResult(t)

\* The calls of every kind, with one update and two answers of the OS
LockCalls ==
    {c \in ThreadCalls :
        /\ c.op = "update" => c.args.status = "errored"
        /\ c.op = "reconcile" => c.os[SnapshotProfile.pid] \in {"alive", "absent"}}

NextLock ==
    \/ \E t \in Threads, c \in LockCalls : Enter(t, c)
    \/ \E t \in Threads : Acquire(t)
    \/ \E t \in Threads : ThreadRuns(t)

\* Fair scheduling: a thread that can run does, and a thread that finds the
\* lock free again and again gets it
SpecThreadsFair ==
    /\ Init
    /\ [][NextLock]_vars
    /\ \A t \in Threads : WF_vars(ThreadRuns(t)) /\ SF_vars(Acquire(t))

----------------------------------------------------------------------------
(* Dispatcher calls statement by statement.  ProcessDispatcher has no lock:
   poll_processes, terminate_hanging_processes and wait_for_process called
   from several threads interleave between any two statements.  A thread
   keeps references to the ProcessInfo objects it read from self.processes;
   a reference shows the child's exit whether or not the handle is still in
   the map, so every copy of a ProcessInfo is kept equal to the child. *)

WorkerProfile == [pid |-> 11, visible |-> FALSE, model |-> None]

\* psutil finds the pid, finds nothing, or raises
WorkerOsAnswers == {"alive", "absent", "raises"}

WorkerCalls ==
    {[op |-> "poll", id |-> None, os |-> os] :
        os \in [{WorkerProfile.pid} -> WorkerOsAnswers]}
    \cup {[op |-> "terminate_hanging", id |-> None, os |-> EmptyDict]}
    \cup {[op |-> "wait", id |-> Some(a), os |-> EmptyDict] : a \in AgentIds}

\* The child of handle a has ended with code: seen through every reference
ChildEnded(procs, a, code) ==
    [x \in DOMAIN procs |-> IF x = a THEN [procs[x] EXCEPT !.exit = Some(code)] ELSE procs[x]]

WorkersSee(ws, a, code) ==
    [t \in Threads |-> [ws[t] EXCEPT !.items = ChildEnded(@, a, code)]]

SpawnWorker(a) ==
    /\ a \in FreshIds
    /\ SpawnBackground(a, WorkerProfile.pid, WorkerProfile.visible, WorkerProfile.model)

\* A child some thread still refers to ends by itself
ChildExit(a, code) ==
    /\ \/ a \in DOMAIN processes /\ processes[a].exit = None
       \/ \E t \in Threads : a \in DOMAIN workers[t].items /\ workers[t].items[a].exit = None
    /\ processes' = ChildEnded(processes, a, code)
    /\ workers' = WorkersSee(workers, a, code)
    /\ UNCHANGED <<agent_states, now, last, held, lock, threads, command, others>>

Start(t, c) ==
    /\ workers[t].pc = "idle"
    /\ workers' = [workers EXCEPT ![t] =
           [IdleWorker EXCEPT !.pc = CASE c.op = "poll" -> "p_items"
                                       [] c.op = "terminate_hanging" -> "t_items"
                                       [] OTHER -> "w_check",
                              !.op = c.op, !.id = c.id, !.os = c.os]]
    /\ UNCHANGED <<processes, agent_states, now, last, held, lock, threads, command, others>>

\* The call returns
Done(ws, t) == [ws EXCEPT ![t] = [IdleWorker EXCEPT !.removed = ws[t].removed]]

\* The call ends with KeyError
Failed(ws, t) == [Done(ws, t) EXCEPT ![t].raised = TRUE]

\* list(self.processes.items()), and time.time() in terminate_hanging_processes
Items(t) ==
    /\ workers[t].pc \in {"p_items", "t_items"}
    /\ workers' = [workers EXCEPT
           ![t].pc = IF workers[t].pc = "p_items" THEN "p_next" ELSE "t_next",
           ![t].items = processes,
           ![t].todo = DOMAIN processes,
           ![t].current_time = now]
    /\ UNCHANGED <<processes, agent_states, now, last, held, lock, threads, command, others>>

\* poll_processes, the head of the loop body: process.poll() on the
\* ProcessInfo, then the psutil inspection with its registry write
PollNext(t) ==
    /\ workers[t].pc = "p_next"
    /\ IF workers[t].todo = {}
       THEN /\ workers' = [workers EXCEPT ![t].pc = "p_sweep"]
            /\ agent_states' = agent_states
       ELSE LET a == CHOOSE x \in workers[t].todo : TRUE
                info == workers[t].items[a]
                ans == workers[t].os[info.pid]
                rest == [workers EXCEPT ![t].todo = @ \ {a}, ![t].id = Some(a)]
                lost == update_agent_status(agent_states, a, "terminated", None,
                            Some(IF ans = "absent" THEN "Process unexpectedly terminated"
                                 ELSE "Process became a zombie"))
            IN  CASE info.exit # None ->
                       /\ workers' = [rest EXCEPT ![t].pc = "p_del"]
                       /\ agent_states' = agent_states
                  [] info.exit = None /\ ans \in {"absent", "zombie"} ->
                       /\ workers' = IF lost.raised THEN rest
                                     ELSE [rest EXCEPT ![t].pc = "p_del_lost"]
                       /\ agent_states' = lost.states
                  [] info.exit = None /\ ans = "alive" ->
                       /\ workers' = rest
                       /\ agent_states' =
                              update_agent_status(agent_states, a, "running", None, None).states
                  [] OTHER ->
                       /\ workers' = rest
                       /\ agent_states' = agent_states
    /\ UNCHANGED <<processes, now, last, held, lock, threads, command, others>>

\* line 223: del self.processes[agent_id], outside any try
PollDel(t) ==
    /\ workers[t].pc = "p_del"
    /\ LET a == workers[t].id[1]
       IN  IF a \in DOMAIN processes
           THEN /\ processes' = DictDel(processes, a)
                /\ workers' = [workers EXCEPT ![t].pc = "p_update", ![t].removed = @ \cup {a}]
           ELSE /\ processes' = processes
                /\ workers' = Failed(workers, t)
    /\ UNCHANGED <<agent_states, now, last, held, lock, threads, command, others>>

\* lines 225-231: the completed status, a missing registry entry tolerated
PollUpdate(t) ==
    /\ workers[t].pc = "p_update"
    /\ LET a == workers[t].id[1]
       IN  agent_states' = update_agent_status(agent_states, a, "completed", None,
                               Some(ExitNote(workers[t].items[a].exit[1]))).states
    /\ workers' = [workers EXCEPT ![t].pc = "p_next"]
    /\ UNCHANGED <<processes, now, last, held, lock, threads, command, others>>

\* lines 239 and 248: del inside the try whose except Exception passes
PollDelLost(t) ==
    /\ workers[t].pc = "p_del_lost"
    /\ LET a == workers[t].id[1]
       IN  IF a \in DOMAIN processes
           THEN /\ processes' = DictDel(processes, a)
                /\ workers' = [workers EXCEPT ![t].pc = "p_next", ![t].removed = @ \cup {a}]
           ELSE /\ processes' = processes
                /\ workers' = [workers EXCEPT ![t].pc = "p_next"]
    /\ UNCHANGED <<agent_states, now, last, held, lock, threads, command, others>>

\* line 260: poll_agent_processes()
PollSweep(t) ==
    /\ workers[t].pc = "p_sweep"
    /\ agent_states' = poll_agent_processes(agent_states, workers[t].os)
    /\ workers' = Done(workers, t)
    /\ UNCHANGED <<processes, now, last, held, lock, threads, command, others>>

\* terminate_hanging_processes, the loop body up to the kill
TermNext(t) ==
    /\ workers[t].pc = "t_next"
    /\ IF workers[t].todo = {}
       THEN /\ workers' = Done(workers, t)
            /\ processes' = processes
       ELSE LET a == CHOOSE x \in workers[t].todo : TRUE
                rest == [workers EXCEPT ![t].todo = @ \ {a}, ![t].id = Some(a)]
            IN  IF a \in Hanging(workers[t].items, workers[t].current_time)
                THEN /\ workers' = WorkersSee([rest EXCEPT ![t].pc = "t_del"], a, -15)
                     /\ processes' = ChildEnded(processes, a, -15)
                ELSE /\ workers' = rest
                     /\ processes' = processes
    /\ UNCHANGED <<agent_states, now, last, held, lock, threads, command, others>>

\* line 183: del self.processes[agent_id], outside any try
TermDel(t) ==
    /\ workers[t].pc = "t_del"
    /\ LET a == workers[t].id[1]
       IN  IF a \in DOMAIN processes
           THEN /\ processes' = DictDel(processes, a)
                /\ workers' = [workers EXCEPT ![t].pc = "t_next", ![t].removed = @ \cup {a}]
           ELSE /\ processes' = processes
                /\ workers' = Failed(workers, t)
    /\ UNCHANGED <<agent_states, now, last, held, lock, threads, command, others>>

\* wait_for_process, line 272: the membership test
WaitCheck(t) ==
    /\ workers[t].pc = "w_check"
    /\ workers' = IF workers[t].id[1] \in DOMAIN processes
                  THEN [workers EXCEPT ![t].pc = "w_lookup"]
                  ELSE Done(workers, t)
    /\ UNCHANGED <<processes, agent_states, now, last, held, lock, threads, command, others>>

\* line 275: process_info = self.processes[agent_id]
WaitLookup(t) ==
    /\ workers[t].pc = "w_lookup"
    /\ LET a == workers[t].id[1]
       IN  workers' = IF a \in DOMAIN processes
                      THEN [workers EXCEPT ![t].pc = "w_communicate",
                                           ![t].items = [x \in {a} |-> processes[a]]]
                      ELSE Failed(workers, t)
    /\ UNCHANGED <<processes, agent_states, now, last, held, lock, threads, command, others>>

\* line 280: communicate() returns once the child has ended
WaitReturns(t) ==
    /\ workers[t].pc = "w_communicate"
    /\ workers[t].items[workers[t].id[1]].exit # None
    /\ workers' = [workers EXCEPT ![t].pc = "w_del"]
    /\ UNCHANGED <<processes, agent_states, now, last, held, lock, threads, command, others>>

\* lines 299-305: communicate() times out and the child is killed
WaitExpires(t) ==
    /\ workers[t].pc = "w_communicate"
    /\ workers[t].items[workers[t].id[1]].exit = None
    /\ workers' = WorkersSee([workers EXCEPT ![t].pc = "w_del_timeout"], workers[t].id[1], -15)
    /\ processes' = ChildEnded(processes, workers[t].id[1], -15)
    /\ UNCHANGED <<agent_states, now, last, held, lock, threads, command, others>>

\* line 318: communicate() raises something else
WaitRaises(t) ==
    /\ workers[t].pc = "w_communicate"
    /\ workers' = [workers EXCEPT ![t].pc = "w_del_error"]
    /\ UNCHANGED <<processes, agent_states, now, last, held, lock, threads, command, others>>

\* lines 286, 308, 320: del self.processes[agent_id].  KeyError at line 286
\* is caught by except Exception, whose own del is line 320; KeyError at
\* lines 308 and 320 is raised inside an except clause and leaves the call.
WaitDel(t) ==
    /\ workers[t].pc \in {"w_del", "w_del_timeout", "w_del_error"}
    /\ LET a == workers[t].id[1]
       IN  IF a \in DOMAIN processes
           THEN /\ processes' = DictDel(processes, a)
                /\ workers' = [Done(workers, t) EXCEPT ![t].removed = @ \cup {a}]
           ELSE /\ processes' = processes
                /\ workers' = IF workers[t].pc = "w_del"
                              THEN [workers EXCEPT ![t].pc = "w_del_error"]
                              ELSE Failed(workers, t)
    /\ UNCHANGED <<agent_states, now, last, held, lock, threads, command, others>>

NextWorkers ==
    \/ Tick
    \/ \E a \in AgentIds : SpawnWorker(a)
    \/ \E a \in AgentIds : ChildExit(a, 0)
    \/ \E t \in Threads, c \in WorkerCalls : Start(t, c)
    \/ \E t \in Threads : Items(t)
    \/ \E t \in Threads : PollNext(t)
    \/ \E t \in Threads : PollDel(t)
    \/ \E t \in Threads : PollUpdate(t)
    \/ \E t \in Threads : PollDelLost(t)
    \/ \E t \in Threads : PollSweep(t)
    \/ \E t \in Threads : TermNext(t)
    \/ \E t \in Threads : TermDel(t)
    \/ \E t \in Threads : WaitCheck(t)
    \/ \E t \in Threads : WaitLookup(t)
    \/ \E t \in Threads : WaitReturns(t)
    \/ \E t \in Threads : WaitExpires(t)
    \/ \E t \in Threads : WaitRaises(t)
    \/ \E t \in Threads : WaitDel(t)

SpecWorkers == Init /\ [][NextWorkers]_vars

----------------------------------------------------------------------------
(* The spawn command *)

python_executable == "python"

\* build_agent_command leaving the model out
build_agent_command_NoModel(agent_name, task_id, prompt, model) ==
    <<python_executable, "-m", "code_puppy", "--child-mode",
      "--task-id", task_id, "--agent", agent_name, "--prompt", prompt>>

\* build_agent_command: `if model:` is false for None and for ""
build_agent_command(agent_name, task_id, prompt, model) ==
    <<python_executable, "-m", "code_puppy", "--child-mode",
      "--task-id", task_id, "--agent", agent_name, "--prompt", prompt>>
    \o (IF model # None /\ model[1] # "" THEN <<"--model", model[1]>> ELSE <<>>)

\* The flag/value pairs of argv from position i on, read two by two
RECURSIVE ReadPairs(_, _)
ReadPairs(argv, i) ==
    IF i + 1 > Len(argv)
    THEN EmptyDict
    ELSE LET rest == ReadPairs(argv, i + 2)
         IN  [f \in DOMAIN rest \cup {argv[i]} |->
                 IF f = argv[i] THEN argv[i + 1] ELSE rest[f]]

\* What the child recovers from its invocation: the flag after the entry
\* point, then the value that follows each flag, a flag not given being None
ReadCommand(argv) ==
    LET pairs == ReadPairs(argv, 5)
        value(f) == IF f \in DOMAIN pairs THEN Some(pairs[f]) ELSE None
    IN  [child_mode |-> Len(argv) >= 4 /\ argv[4] = "--child-mode",
         task_id |-> value("--task-id"),
         agent_name |-> value("--agent"),
         prompt |-> value("--prompt"),
         model |-> value("--model")]

AgentNames == {"puppy", "--model", ""}
TaskIds == {"0b8e", "77c1"}
Prompts == {"hi", "--agent x", ""}
CommandModels == {None, Some(""), Some("m"), Some("--prompt")}

InitCommand ==
    /\ processes = EmptyDict
    /\ agent_states = EmptyDict
    /\ now = 0
    /\ last = NoCall
    /\ held = None
    /\ lock = None
    /\ threads = [t \in Threads |-> IdleThread]
    /\ workers = [t \in Threads |-> IdleWorker]
    /\ command \in {Some([agent_name |-> n, task_id |-> i, prompt |-> p, model |-> m,
                          argv |-> <<>>, read |-> None]) :
                       n \in AgentNames, i \in TaskIds, p \in Prompts, m \in CommandModels}
    /\ InitOthers

BuildCommand ==
    /\ command[1].argv = <<>>
    /\ command' = Some([command[1] EXCEPT !.argv =
           build_agent_command(command[1].agent_name, command[1].task_id,
                               command[1].prompt, command[1].model)])
    /\ UNCHANGED <<processes, agent_states, now, last, held, lock, threads, workers, others>>

ChildReads ==
    /\ command[1].argv # <<>>
    /\ command[1].read = None
    /\ command' = Some([command[1] EXCEPT !.read = Some(ReadCommand(command[1].argv))])
    /\ UNCHANGED <<processes, agent_states, now, last, held, lock, threads, workers, others>>

NextCommand ==
    \/ BuildCommand
    \/ ChildReads

SpecCommand == InitCommand /\ [][NextCommand]_vars

----------------------------------------------------------------------------
(* Circuit breaker *)

MaxClock == 5

\* allow_call letting the first trial through at the cooldown, not after it
allow_call_AtCooldown(b, t) ==
    CASE b.state = "closed" -> [ret |-> TRUE, breaker |-> b]
      [] b.state = "open" ->
            IF t - b.opened_at >= cooldown
            THEN [ret |-> TRUE, breaker |-> [b EXCEPT !.state = "half_open", !.successes = 0]]
            ELSE [ret |-> FALSE, breaker |-> b]
      [] OTHER -> [ret |-> TRUE, breaker |-> b]

\* allow_call: closed lets every call through; open lets none through until
\* the time since the open transition exceeds the cooldown, and then turns
\* half_open; half_open lets the trial calls through
allow_call(b, t) ==
    CASE b.state = "closed" -> [ret |-> TRUE, breaker |-> b]
      [] b.state = "open" ->
            IF t - b.opened_at > cooldown
            THEN [ret |-> TRUE, breaker |-> [b EXCEPT !.state = "half_open", !.successes = 0]]
            ELSE [ret |-> FALSE, breaker |-> b]
      [] OTHER -> [ret |-> TRUE, breaker |-> b]

Opened(b, t) ==
    [b EXCEPT !.state = "open", !.opened_at = t, !.successes = 0]

\* record_failure reopening from half_open with the old transition time
record_failure_KeepsClock(b, t) ==
    CASE b.state = "closed" ->
            IF b.failures + 1 >= failure_threshold
            THEN Opened([b EXCEPT !.failures = @ + 1], t)
            ELSE [b EXCEPT !.failures = @ + 1]
      [] b.state = "half_open" -> [b EXCEPT !.state = "open", !.successes = 0]
      [] OTHER -> b

\* record_failure: closed counts up to the threshold and opens; half_open
\* opens at once; the transition time is stamped
record_failure(b, t) ==
    CASE b.state = "closed" ->
            IF b.failures + 1 >= failure_threshold
            THEN Opened([b EXCEPT !.failures = @ + 1], t)
            ELSE [b EXCEPT !.failures = @ + 1]
      [] b.state = "half_open" -> Opened(b, t)
      [] OTHER -> b

\* record_success leaving the failure counter of a closed breaker as it is
record_success_KeepsFailures(b) ==
    CASE b.state = "half_open" ->
            IF b.successes + 1 >= trial_count
            THEN [b EXCEPT !.state = "closed", !.failures = 0, !.successes = 0]
            ELSE [b EXCEPT !.successes = @ + 1]
      [] OTHER -> b

\* record_success: closed forgets the failures; half_open counts up to the
\* trial count and closes with all counters at zero
record_success(b) ==
    CASE b.state = "closed" -> [b EXCEPT !.failures = 0]
      [] b.state = "half_open" ->
            IF b.successes + 1 >= trial_count
            THEN [b EXCEPT !.state = "closed", !.failures = 0, !.successes = 0]
            ELSE [b EXCEPT !.successes = @ + 1]
      [] OTHER -> b

Min(x, y) == IF x < y THEN x ELSE y

\* Time passes
Elapse ==
    /\ now < MaxClock
    /\ now' = now + 1
    /\ last' = NoCall
    /\ UNCHANGED <<lifecycle, others>>

RecordFailure ==
    /\ breaker' = record_failure(breaker, now)
    /\ streak' = Min(streak + 1, failure_threshold)
    /\ last' = Call("record_failure", "", None, EmptyDict, None, FALSE, <<>>, EmptyDict)
    /\ UNCHANGED <<lifecycle, now, retry, isolator, dag>>

RecordSuccess ==
    /\ breaker' = record_success(breaker)
    /\ streak' = 0
    /\ last' = Call("record_success", "", None, EmptyDict, None, FALSE, <<>>, EmptyDict)
    /\ UNCHANGED <<lifecycle, now, retry, isolator, dag>>

AllowCall ==
    LET allow == allow_call(breaker, now)
    IN  /\ breaker' = allow.breaker
        /\ last' = Call("allow_call", "", None, EmptyDict, Some(allow.ret), FALSE, <<>>, EmptyDict)
        /\ UNCHANGED <<lifecycle, now, retry, isolator, dag, streak>>

NextBreaker ==
    \/ Elapse
    \/ RecordFailure
    \/ RecordSuccess
    \/ AllowCall

SpecBreaker == Init /\ [][NextBreaker]_vars

----------------------------------------------------------------------------
(* The error isolator.  The extent of the tracked window is a configuration
   value; every error recorded since the statistics were last reset is inside
   it. *)

MaxErrors == 6
Errors == {"ConnectionError", "KeyError"}

classify(error) ==
    CASE error = "ConnectionError" -> "connection"
      [] OTHER -> "unknown"

\* The flag set only once the count has passed the threshold
record_error_Exceeds(iso, s, error, t) ==
    LET counted == [iso[s] EXCEPT !.counts[classify(error)] = @ + 1,
                                  !.total = @ + 1,
                                  !.last_failure = Some(t)]
    IN  [iso EXCEPT ![s] =
            IF counted.total > quarantine_threshold /\ ~counted.quarantined
            THEN [counted EXCEPT !.quarantined = TRUE,
                                 !.reason = "error threshold reached",
                                 !.quarantined_at = Some(t)]
            ELSE counted]

\* The statistics, flag included, forgotten when the last failure is older
\* than the cooldown
record_error_Forgets(iso, s, error, t) ==
    LET kept == IF iso[s].last_failure # None /\ t - iso[s].last_failure[1] > cooldown
                THEN NewStats
                ELSE iso[s]
        counted == [kept EXCEPT !.counts[classify(error)] = @ + 1,
                                !.total = @ + 1,
                                !.last_failure = Some(t)]
    IN  [iso EXCEPT ![s] =
            IF counted.total >= quarantine_threshold /\ ~counted.quarantined
            THEN [counted EXCEPT !.quarantined = TRUE,
                                 !.reason = "error threshold reached",
                                 !.quarantined_at = Some(t)]
            ELSE counted]

record_error(iso, s, error, t) ==
    LET counted == [iso[s] EXCEPT !.counts[classify(error)] = @ + 1,
                                  !.total = @ + 1,
                                  !.last_failure = Some(t)]
    IN  [iso EXCEPT ![s] =
            IF counted.total >= quarantine_threshold /\ ~counted.quarantined
            THEN [counted EXCEPT !.quarantined = TRUE,
                                 !.reason = "error threshold reached",
                                 !.quarantined_at = Some(t)]
            ELSE counted]

is_quarantined(iso, s) == iso[s].quarantined

\* The flag lowered, the statistics kept
clear_quarantine_KeepsStats(iso, s) ==
    [iso EXCEPT ![s].quarantined = FALSE, ![s].reason = "", ![s].quarantined_at = None]

clear_quarantine(iso, s) == [iso EXCEPT ![s] = NewStats]

RecordError(s, error) ==
    /\ isolator[s].total < MaxErrors
    /\ isolator' = record_error(isolator, s, error, now)
    /\ last' = Call("record_error", "", Some(s), EmptyDict, None, FALSE, <<>>, EmptyDict)
    /\ UNCHANGED <<lifecycle, now, breaker, retry, dag, streak>>

IsQuarantined(s) ==
    /\ last' = Call("is_quarantined", "", Some(s), EmptyDict, Some(is_quarantined(isolator, s)),
                    FALSE, <<>>, EmptyDict)
    /\ UNCHANGED <<lifecycle, now, others>>

ClearQuarantine(s) ==
    /\ isolator' = clear_quarantine(isolator, s)
    /\ last' = Call("clear_quarantine", "", Some(s), EmptyDict, None, FALSE, <<>>, EmptyDict)
    /\ UNCHANGED <<lifecycle, now, breaker, retry, dag, streak>>

NextIsolator ==
    \/ \E s \in Servers, error \in Errors : RecordError(s, error)
    \/ \E s \in Servers : IsQuarantined(s)
    \/ \E s \in Servers : ClearQuarantine(s)

SpecIsolator == Init /\ [][NextIsolator]_vars

\* One server's errors of one kind, with the breaker of that server at work
NextQuarantine ==
    \/ Elapse
    \/ RecordError("s1", "ConnectionError")
    \/ IsQuarantined("s1")
    \/ ClearQuarantine("s1")
    \/ RecordFailure
    \/ RecordSuccess
    \/ AllowCall

SpecQuarantine == Init /\ [][NextQuarantine]_vars

----------------------------------------------------------------------------
(* Retry manager *)

max_delay == 2

RECURSIVE Pow2(_)
Pow2(n) == IF n = 0 THEN 1 ELSE 2 * Pow2(n - 1)

\* The wait after the k-th failed attempt: exponential, bounded by max_delay
backoff(k) == Min(Pow2(k - 1), max_delay)

Outcomes == {"ok", "error", "fatal"}
Attempts == 1..3
\* The operations a call is made with: what an operation would do after the
\* attempt that ends the call is never seen, and is "ok" here
Operations ==
    {op \in UNION {[1..n -> Outcomes] : n \in Attempts} :
        \A i \in DOMAIN op : op[i] # "error" => \A j \in DOMAIN op : j > i => op[j] = "ok"}

\* The server a call_with_retry is made for, and the error an outcome raises:
\* connection errors are retryable, errors of unknown category are not
RetryServer == "s1"
Raised(outcome) == IF outcome = "error" THEN "ConnectionError" ELSE "KeyError"
retryable(error) == classify(error) = "connection"

\* An attempt that does not ask the breaker
retry_attempt_IgnoresBreaker(r, b, t) ==
    LET outcome == r.given[r.invoked + 1]
        ran == [r EXCEPT !.invoked = @ + 1]
    IN  IF outcome = "ok"
        THEN [path |-> "success",
              breaker |-> record_success(b),
              retry |-> [ran EXCEPT !.pc = "idle", !.log = Append(@, "success"),
                                    !.result = Some("ok")]]
        ELSE LET left == r.attempts_left - 1
                 failed == [ran EXCEPT !.attempts_left = left, !.log = Append(@, "failure")]
             IN  [path |-> "failure",
                  breaker |-> record_failure(b, t),
                  retry |-> IF left > 0 /\ retryable(Raised(outcome))
                            THEN [failed EXCEPT !.pc = "wait"]
                            ELSE [failed EXCEPT !.pc = "idle", !.result = Some("failed")]]

\* An attempt that returns a success without recording it on the breaker
retry_attempt_SkipsSuccess(r, b, t) ==
    LET allow == allow_call(b, t)
        outcome == r.given[r.invoked + 1]
    IN  IF allow.ret /\ outcome = "ok"
        THEN [path |-> "success",
              breaker |-> allow.breaker,
              retry |-> [r EXCEPT !.pc = "idle", !.invoked = @ + 1, !.result = Some("ok")]]
        ELSE IF ~allow.ret
             THEN [path |-> "rejected",
                   breaker |-> allow.breaker,
                   retry |-> [r EXCEPT !.pc = "idle", !.result = Some("CircuitOpenError")]]
             ELSE retry_attempt_IgnoresBreaker(r, allow.breaker, t)

\* An attempt whose failure is retried whatever its category
retry_attempt_RetriesAll(r, b, t) ==
    LET allow == allow_call(b, t)
        outcome == r.given[r.invoked + 1]
        attempt == retry_attempt_IgnoresBreaker(r, allow.breaker, t)
    IN  IF ~allow.ret
        THEN [path |-> "rejected",
              breaker |-> allow.breaker,
              retry |-> [r EXCEPT !.pc = "idle", !.result = Some("CircuitOpenError")]]
        ELSE IF outcome # "ok" /\ r.attempts_left > 1
             THEN [attempt EXCEPT !.retry.pc = "wait", !.retry.result = None]
             ELSE attempt

\* One attempt of call_with_retry: the breaker is asked first and a refusal
\* ends the call with CircuitOpenError; otherwise the operation is invoked, a
\* success is recorded and returned, a failure is recorded and, when attempts
\* remain and the error is retryable, followed by a wait
retry_attempt(r, b, t) ==
    LET allow == allow_call(b, t)
    IN  IF ~allow.ret
        THEN [path |-> "rejected",
              breaker |-> allow.breaker,
              retry |-> [r EXCEPT !.pc = "idle", !.result = Some("CircuitOpenError")]]
        ELSE retry_attempt_IgnoresBreaker(r, allow.breaker, t)

RetryBegin(operation) ==
    /\ retry.pc = "idle"
    /\ isolator[RetryServer].total + Len(operation) <= MaxErrors
    /\ retry' = [IdleRetry EXCEPT !.pc = "attempt", !.given = operation,
                                  !.max_attempts = Len(operation),
                                  !.attempts_left = Len(operation),
                                  !.start = Some(breaker)]
    /\ last' = Call("call_with_retry", "", None, EmptyDict, None, FALSE, <<>>, EmptyDict)
    /\ UNCHANGED <<lifecycle, now, breaker, isolator, dag, streak>>

RetryAttempt ==
    /\ retry.pc = "attempt"
    /\ LET att == retry_attempt(retry, breaker, now)
       IN  /\ retry' = att.retry
           /\ breaker' = att.breaker
           /\ streak' = CASE att.path = "failure" -> Min(streak + 1, failure_threshold)
                          [] att.path = "success" -> 0
                          [] OTHER -> streak
           /\ last' = [Call("retry_attempt", att.path, None, EmptyDict, att.retry.result,
                            att.path = "rejected", <<>>, EmptyDict)
                          EXCEPT !.args = [invoked |-> retry.invoked,
                                           attempts_left |-> retry.attempts_left,
                                           log |-> retry.log]]
           /\ isolator' = IF att.path = "failure"
                          THEN record_error(isolator, RetryServer,
                                            Raised(retry.given[retry.invoked + 1]), now)
                          ELSE isolator
    /\ UNCHANGED <<lifecycle, now, dag>>

\* The wait between two attempts
RetryWait ==
    /\ retry.pc = "wait"
    /\ now + backoff(retry.invoked) <= MaxClock
    /\ now' = now + backoff(retry.invoked)
    /\ retry' = [retry EXCEPT !.pc = "attempt"]
    /\ last' = NoCall
    /\ UNCHANGED <<lifecycle, breaker, isolator, dag, streak>>

NextRetry ==
    \/ Elapse
    \/ \E operation \in Operations : RetryBegin(operation)
    \/ RetryAttempt
    \/ RetryWait

SpecRetry == Init /\ [][NextRetry]_vars

----------------------------------------------------------------------------
(* The DAG view, mounted in an application *)

MaxEdges == 1
NodeIds == {"n1", "demo_1"}
NodeStatuses == {"pending", "running"}

InOrder(seq, x) == \E i \in DOMAIN seq : seq[i] = x

\* add_node without the membership test on execution_order
add_node_AlwaysAppends(d, node) ==
    [nodes |-> DictSet(d.nodes, node.node_id, node),
     execution_order |-> Append(d.execution_order, node.node_id)]

add_node(d, node) ==
    [nodes |-> DictSet(d.nodes, node.node_id, node),
     execution_order |-> IF InOrder(d.execution_order, node.node_id)
                         THEN d.execution_order
                         ELSE Append(d.execution_order, node.node_id)]

update_node_status(d, node_id, status) ==
    IF node_id \in DOMAIN d.nodes
    THEN [d EXCEPT !.nodes[node_id].status = status]
    ELSE d

add_connection(d, parent_id, child_id) ==
    IF parent_id \in DOMAIN d.nodes /\ child_id \in DOMAIN d.nodes
    THEN LET linked == [d EXCEPT !.nodes[parent_id].children = Append(@, child_id)]
         IN  [linked EXCEPT !.nodes[child_id].parents = Append(@, parent_id)]
    ELSE d

clear_dag(d) == add_demo_nodes([nodes |-> EmptyDict, execution_order |-> <<>>])

clear_demo_mode(d) == [nodes |-> EmptyDict, execution_order |-> <<>>]

DagActions ==
    {"add_node", "update_status", "add_connection", "clear", "clear_demo", "restore_demo",
     "node_update"}
\* The messages, the fields an action does not read left at one value
Messages ==
    {m \in [sidebar_type : {"dag", "chat"}, dag_action : DagActions,
            node_id : NodeIds, child_id : NodeIds, status : NodeStatuses] :
        /\ (m.sidebar_type = "dag"
            /\ m.dag_action \in {"add_node", "update_status", "add_connection"})
               \/ m.node_id = "n1"
        /\ (m.sidebar_type = "dag" /\ m.dag_action = "add_connection") \/ m.child_id = "n1"
        /\ (m.sidebar_type = "dag" /\ m.dag_action \in {"add_node", "update_status"})
               \/ m.status = "pending"}

\* The node of an add_node message has no type of its own here: "task"
process_dag_message(d, metadata) ==
    IF metadata.sidebar_type # "dag"
    THEN d
    ELSE CASE metadata.dag_action = "add_node" ->
                 add_node(d, DAGNode(metadata.node_id, "task", metadata.status))
           [] metadata.dag_action = "update_status" ->
                 update_node_status(d, metadata.node_id, metadata.status)
           [] metadata.dag_action = "add_connection" ->
                 add_connection(d, metadata.node_id, metadata.child_id)
           [] metadata.dag_action = "clear" -> clear_dag(d)
           [] metadata.dag_action = "clear_demo" ->
                 [nodes |-> EmptyDict, execution_order |-> <<>>]
           [] metadata.dag_action = "restore_demo" ->
                 add_demo_nodes([nodes |-> EmptyDict, execution_order |-> <<>>])
           [] OTHER -> d

EdgesBounded(d) ==
    \A x \in DOMAIN d.nodes :
        Len(d.nodes[x].children) <= MaxEdges /\ Len(d.nodes[x].parents) <= MaxEdges

DagCall(op, path, node_id) ==
    Call(op, path, node_id, EmptyDict, None, FALSE, <<>>, EmptyDict)

AddNode(node_id, status) ==
    /\ dag' = add_node(dag, DAGNode(node_id, "task", status))
    /\ last' = DagCall("add_node", "", Some(node_id))
    /\ UNCHANGED <<lifecycle, now, breaker, retry, isolator, streak>>

UpdateNodeStatus(node_id, status) ==
    /\ dag' = update_node_status(dag, node_id, status)
    /\ last' = DagCall("update_node_status", "", Some(node_id))
    /\ UNCHANGED <<lifecycle, now, breaker, retry, isolator, streak>>

AddConnection(parent_id, child_id) ==
    /\ EdgesBounded(add_connection(dag, parent_id, child_id))
    /\ dag' = add_connection(dag, parent_id, child_id)
    /\ last' = [DagCall("add_connection", "", Some(parent_id))
                    EXCEPT !.args = [x \in {"child_id"} |-> child_id]]
    /\ UNCHANGED <<lifecycle, now, breaker, retry, isolator, streak>>

ClearDag ==
    /\ dag' = clear_dag(dag)
    /\ last' = DagCall("clear_dag", "", None)
    /\ UNCHANGED <<lifecycle, now, breaker, retry, isolator, streak>>

ClearDemoMode ==
    /\ dag' = clear_demo_mode(dag)
    /\ last' = DagCall("clear_demo_mode", "", None)
    /\ UNCHANGED <<lifecycle, now, breaker, retry, isolator, streak>>

ProcessDagMessage(metadata) ==
    /\ EdgesBounded(process_dag_message(dag, metadata))
    /\ dag' = process_dag_message(dag, metadata)
    /\ last' = DagCall("process_dag_message",
                       IF metadata.sidebar_type = "dag" THEN metadata.dag_action ELSE "ignored",
                       None)
    /\ UNCHANGED <<lifecycle, now, breaker, retry, isolator, streak>>

NextDag ==
    \/ \E node_id \in NodeIds, status \in NodeStatuses : AddNode(node_id, status)
    \/ \E node_id \in NodeIds, status \in NodeStatuses : UpdateNodeStatus(node_id, status)
    \/ \E parent_id \in NodeIds, child_id \in NodeIds : AddConnection(parent_id, child_id)
    \/ ClearDag
    \/ ClearDemoMode
    \/ \E metadata \in Messages : ProcessDagMessage(metadata)

SpecDag == Init /\ [][NextDag]_vars

----------------------------------------------------------------------------
(* Claims.  A claim about one call reads the call from last: last.pre_processes
   and last.pre_states are the maps as the call found them, processes and
   agent_states the maps as it left them. *)

PreTracked == DOMAIN last.pre_processes
PreRecorded == DOMAIN last.pre_states
CallId == last.id[1]

\* C1: reconcile() leaves the status of every record that is not running
\* unchanged, whatever the OS reports for its pid.
C1_ReconcileKeepsTerminal ==
    last.op = "reconcile" =>
        \A a \in PreRecorded :
            last.pre_states[a].status # "running" =>
                /\ a \in DOMAIN agent_states
                /\ agent_states[a].status = last.pre_states[a].status

\* C2: no poll() and no reconcile() moves a record whose status is completed,
\* errored or terminated back to running.
C2_NeverBackToRunning ==
    last.op \in {"poll", "reconcile"} =>
        \A a \in PreRecorded \cap DOMAIN agent_states :
            last.pre_states[a].status \in TerminalStatuses =>
                agent_states[a].status # "running"

\* C3: add with an id that is already present fails, and the record of the
\* first add is unchanged.
C3_DuplicateAddFails ==
    (last.op = "add" /\ CallId \in PreRecorded) =>
        /\ last.raised
        /\ agent_states[CallId] = last.pre_states[CallId]

\* The handles of a poll() whose exit-code check reports a code, with a
\* running registry record
PollSawExit(a) ==
    /\ a \in PreTracked
    /\ last.pre_processes[a].exit # None
    /\ a \in PreRecorded
    /\ last.pre_states[a].status = "running"

\* C4: when a tracked handle reports an exit code and its record is running,
\* poll() returns with the handle untracked and the record completed, carrying
\* the result the handle-level check wrote; the sweep overwrites neither.
C4_ExitCodeGivesCompleted ==
    last.op = "poll" =>
        \A a \in AgentIds :
            PollSawExit(a) =>
                /\ a \notin DOMAIN processes
                /\ agent_states[a].status = "completed"
                /\ agent_states[a].result = Some(ExitNote(last.pre_processes[a].exit[1]))

\* The handles of a poll() that report no exit code while the OS answers ans
\* for their pid
PollSawOs(a, ans) ==
    /\ a \in PreTracked
    /\ last.pre_processes[a].exit = None
    /\ last.os[last.pre_processes[a].pid] = ans

\* C5: when a tracked handle reports no exit code, the OS says its pid does
\* not exist and its record is running, then after poll() the record is
\* terminated with result "Process unexpectedly terminated" and the handle is
\* not tracked.
C5_AbsentPidTerminated ==
    last.op = "poll" =>
        \A a \in AgentIds :
            (/\ PollSawOs(a, "absent")
             /\ a \in PreRecorded
             /\ last.pre_states[a].status = "running") =>
                /\ a \in DOMAIN agent_states
                /\ agent_states[a].status = "terminated"
                /\ agent_states[a].result = Some("Process unexpectedly terminated")
                /\ a \notin DOMAIN processes

C5_Witness ==
    /\ last.op = "poll"
    /\ \E a \in AgentIds :
           /\ PollSawOs(a, "absent")
           /\ a \in PreRecorded
           /\ last.pre_states[a].status = "running"
           /\ agent_states[a].status = "terminated"
           /\ a \notin DOMAIN processes

\* C6: when a tracked handle reports no exit code and the OS reports its pid
\* as a zombie, then after poll() the registry record of that agent (whatever
\* its status was) is terminated with result "Process became a zombie" and
\* the handle is dropped.
C6_ZombieTerminated ==
    last.op = "poll" =>
        \A a \in AgentIds :
            (PollSawOs(a, "zombie") /\ a \in PreRecorded) =>
                /\ a \in DOMAIN agent_states
                /\ agent_states[a].status = "terminated"
                /\ agent_states[a].result = Some("Process became a zombie")
                /\ a \notin DOMAIN processes

C6_Witness ==
    /\ last.op = "poll"
    /\ \E a \in AgentIds :
           /\ PollSawOs(a, "zombie")
           /\ a \in PreRecorded
           /\ last.pre_states[a].status = "terminated"
           /\ last.pre_states[a].result = Some("Process unexpectedly terminated")
           /\ agent_states[a].result = Some("Process became a zombie")
           /\ a \notin DOMAIN processes

\* C7: a handle that poll() finds in a terminal state (exit code observed,
\* pid absent, or zombie) is removed in that call, whether or not the
\* registry holds a record for the agent.
C7_TerminalHandleDropped ==
    last.op = "poll" =>
        \A a \in PreTracked :
            (\/ last.pre_processes[a].exit # None
             \/ PollSawOs(a, "absent")
             \/ PollSawOs(a, "zombie")) =>
                a \notin DOMAIN processes

\* The handles terminate_hanging() found running past the timeout
WasHanging(a) ==
    /\ a \in PreTracked
    /\ last.pre_processes[a].exit = None
    /\ now - last.pre_processes[a].start_time > timeout

\* C8: terminate_hanging() returns the id of every tracked process that is
\* still running and older than the timeout, and status() of that id then
\* returns nothing.
C8_HangingTerminated ==
    last.op = "terminate_hanging" =>
        \A a \in AgentIds :
            WasHanging(a) =>
                /\ a \in last.ret
                /\ get_process_status(processes, a) = None

C8_Witness ==
    /\ last.op = "terminate_hanging"
    /\ \E a \in AgentIds :
           /\ WasHanging(a)
           /\ a \in last.ret
           /\ a \notin DOMAIN processes

\* wait() on a tracked process whose communicate() timed out
WaitTimeoutCase ==
    /\ last.op = "wait"
    /\ last.path = "timeout"

WaitTimeoutContract ==
    WaitTimeoutCase =>
        /\ ~last.raised
        /\ last.signals[CallId][1] = "terminate"
        /\ CallId \notin DOMAIN processes
        /\ last.ret # None
        /\ last.ret[1].exit_code = -1
        /\ last.ret[1].stderr # ""

\* C9 as stated: a wait() that times out does not raise, terminates the
\* process, removes the handle and returns exit_code -1 with a non-empty
\* stderr; and no wait() returns exit_code -1 with an empty stderr.
C9_Original ==
    /\ WaitTimeoutContract
    /\ (last.op = "wait" /\ last.ret # None) =>
           ~(last.ret[1].exit_code = -1 /\ last.ret[1].stderr = "")

\* C9, amended: a wait() that times out does not raise, terminates the
\* process, removes the handle and returns exit_code -1 with a non-empty
\* stderr; a result with exit_code -1 and an empty stderr comes only from the
\* normal-exit branch, for a child whose own return code is -1 and whose
\* stderr is empty.
C9_TimeoutResult ==
    /\ WaitTimeoutContract
    /\ (last.op = "wait" /\ last.ret # None) =>
           ((last.ret[1].exit_code = -1 /\ last.ret[1].stderr = "") =>
                /\ last.path = "exited"
                /\ last.pre_processes[CallId].exit \in {None, Some(-1)})

C9_Witness ==
    /\ WaitTimeoutCase
    /\ last.pre_processes[CallId].exit = None
    /\ last.ret[1].stderr = "Process timed out"
    /\ CallId \notin DOMAIN processes

\* C10: a spawn() that raises leaves the registry and the handle map exactly
\* as they were, with no entry for the id the call generated.
C10_FailedSpawnLeavesNothing ==
    (last.op = "spawn" /\ last.raised) =>
        /\ processes = last.pre_processes
        /\ agent_states = last.pre_states
        /\ CallId \notin DOMAIN processes \cup DOMAIN agent_states

\* C11: after add(a, pid, visible, model), get(a) returns a running record
\* with that pid, visible and model and with last_reasoning, result and
\* session_info unset; after a successful spawn the generated id is in the
\* handle map and in the registry, both with the pid of the spawned process.
C11_AddedIsRunning ==
    /\ last.op = "add" =>
           LET got == get_agent_state(agent_states, CallId)
           IN  /\ ~got.raised
               /\ got.value[1].status = "running"
               /\ got.value[1].pid = last.args.pid
               /\ got.value[1].visible = last.args.visible
               /\ got.value[1].model = last.args.model
               /\ got.value[1].last_reasoning = None
               /\ got.value[1].result = None
               /\ got.value[1].session_info = None
    /\ (last.op = "spawn" /\ ~last.raised) =>
           /\ last.ret = Some(CallId)
           /\ CallId \in DOMAIN processes
           /\ CallId \in DOMAIN agent_states
           /\ agent_states[CallId].pid = processes[CallId].pid
           /\ agent_states[CallId].status = "running"

C11_Witness ==
    /\ last.op = "add"
    /\ last.args.visible
    /\ last.args.model # None
    /\ CallId \in PreRecorded
    /\ last.pre_states[CallId].status = "terminated"
    /\ agent_states[CallId].status = "running"

\* The fields update never writes
SameIdentity(r1, r2) ==
    /\ r1.pid = r2.pid
    /\ r1.start_time = r2.start_time
    /\ r1.visible = r2.visible
    /\ r1.model = r2.model
    /\ r1.session_info = r2.session_info

OthersUntouched(a) ==
    /\ DOMAIN agent_states \ {a} = PreRecorded \ {a}
    /\ \A b \in PreRecorded \ {a} : agent_states[b] = last.pre_states[b]

\* C12: update on an absent id fails with the not-found error (KeyError) and
\* changes nothing; on a present id it sets status and each optional field
\* that was given, and leaves the optional fields not given, the fields pid,
\* start_time, visible, model, session_info and every other record as they
\* were.
C12_UpdateMerges ==
    last.op = "update" =>
        IF CallId \notin PreRecorded
        THEN last.raised /\ agent_states = last.pre_states
        ELSE LET old == last.pre_states[CallId]
                 new == agent_states[CallId]
             IN  /\ ~last.raised
                 /\ CallId \in DOMAIN agent_states
                 /\ new.status = last.args.status
                 /\ new.last_reasoning =
                        IF last.args.last_reasoning # None
                        THEN last.args.last_reasoning ELSE old.last_reasoning
                 /\ new.result =
                        IF last.args.result # None THEN last.args.result ELSE old.result
                 /\ SameIdentity(new, old)
                 /\ OthersUntouched(CallId)

C12_Witness ==
    /\ last.op = "update"
    /\ CallId \in PreRecorded
    /\ PreRecorded = PairIds
    /\ last.args.last_reasoning = None
    /\ last.args.result # None
    /\ last.pre_states[CallId].last_reasoning # None
    /\ agent_states[CallId].last_reasoning # None
    /\ agent_states[CallId].result = last.args.result

\* C14: remove never fails; removing an absent id leaves the registry as it
\* was; a second remove of the same id changes nothing more; the records of
\* the other ids are untouched.
C14_RemoveIdempotent ==
    last.op = "remove" =>
        /\ ~last.raised
        /\ CallId \notin DOMAIN agent_states
        /\ CallId \notin PreRecorded => agent_states = last.pre_states
        /\ remove_agent_state(agent_states, CallId) = agent_states
        /\ remove_agent_state(remove_agent_state(last.pre_states, CallId), CallId)
               = remove_agent_state(last.pre_states, CallId)
        /\ OthersUntouched(CallId)

C14_Witness ==
    /\ last.op = "remove"
    /\ CallId \notin PreRecorded
    /\ PreRecorded # {}
    /\ agent_states = last.pre_states
    /\ \E b \in DOMAIN agent_states : agent_states[b].status = "completed"

\* C13: what get returned is a snapshot.  A later update, reconcile or remove
\* leaves a snapshot already returned as it was; writing a field of the
\* snapshot leaves the registry as it was; get on an absent id fails with
\* the not-found error (KeyError).
C13_GetReturnsSnapshot ==
    /\ (last.op \in {"update", "reconcile", "remove", "add"} /\ last.pre_held # None)
           => held = last.pre_held
    /\ last.op = "mutate_held" =>
           /\ agent_states = last.pre_states
           /\ held # last.pre_held
    /\ last.op = "get" =>
           IF CallId \in PreRecorded
           THEN /\ ~last.raised
                /\ last.ret = Some(last.pre_states[CallId])
                /\ agent_states = last.pre_states
           ELSE last.raised /\ last.ret = None

C13_Witness ==
    /\ last.op \in {"update", "reconcile"}
    /\ held # None
    /\ held = last.pre_held
    /\ CallId = held[1].id \/ last.op = "reconcile"
    /\ held[1].id \in PreRecorded
    /\ held[1].value = last.pre_states[held[1].id]
    /\ held[1].value # agent_states[held[1].id]

\* The inspection raised for a's handle, and for a's record in the sweep,
\* an exception of one of the kinds in anss
PollRaised(a, anss) ==
    /\ last.op = "poll"
    /\ a \in PreTracked
    /\ last.pre_processes[a].exit = None
    /\ last.os[last.pre_processes[a].pid] \in anss
    /\ a \in PreRecorded => last.os[last.pre_states[a].pid] \in anss

KeepsHandleAndStatus(a) ==
    /\ ~last.raised
    /\ a \in DOMAIN processes
    /\ processes[a] = last.pre_processes[a]
    /\ a \in PreRecorded =>
           /\ a \in DOMAIN agent_states
           /\ agent_states[a].status = last.pre_states[a].status

\* C15 as stated: whenever the OS inspection raises for a handle without an
\* exit code (and raises in the sweep too), poll() does not raise, the handle
\* stays tracked and the record keeps its status.
C15_Original ==
    \A a \in AgentIds :
        PollRaised(a, {"raises", "nosuch"}) => KeepsHandleAndStatus(a)

\* C15: when the inspection raises for a handle without an exit code, poll()
\* does not raise and the handle stays tracked.  The record keeps its status
\* when the exception is not psutil.NoSuchProcess; on NoSuchProcess the sweep
\* turns a running record into terminated, "Process no longer exists", and
\* leaves a record that is not running as it was.
C15_InspectionErrorSwallowed ==
    \A a \in AgentIds :
        /\ PollRaised(a, {"raises"}) => KeepsHandleAndStatus(a)
        /\ PollRaised(a, {"nosuch"}) =>
               /\ ~last.raised
               /\ a \in DOMAIN processes
               /\ a \in PreRecorded =>
                      agent_states[a] =
                          IF last.pre_states[a].status = "running"
                          THEN MarkTerminated(last.pre_states[a], "Process no longer exists")
                          ELSE last.pre_states[a]

C15_Witness ==
    \E a \in AgentIds :
        /\ PollRaised(a, {"raises"})
        /\ a \in PreRecorded
        /\ last.pre_states[a].status = "running"
        /\ agent_states[a].status = "running"
        /\ a \in DOMAIN processes

\* C16: with threads running add, update, get, remove and reconcile
\* concurrently, what get and the running-agents listing read is never a
\* part of another thread's write: each record read shows the status,
\* last_reasoning and result of an update, or the status and result of a
\* reconcile transition, all together or not at all.
C16_NoPartialRecordSeen ==
    \A t \in Threads :
        /\ ~threads[t].torn
        /\ (threads[t].pc = "body" /\ threads[t].op \in {"get", "list"}) =>
               \A a \in DOMAIN agent_states : ~Torn(t, a)

\* a reader waits at the lock while a writer is between two of its writes
C16_Witness ==
    \E t, u \in Threads :
        /\ t # u
        /\ threads[t].pc = "acquire"
        /\ threads[t].op \in {"get", "list"}
        /\ threads[u].pc \in {"w_reasoning", "w_result", "r_result"}
        /\ \E a \in DOMAIN agent_states : MidWrite(u, a)

\* C17: with threads running poll(), terminate_hanging() and wait()
\* concurrently on one dispatcher, no two calls remove the same handle and no
\* call fails with a missing-key error because another thread removed the
\* handle between its lookup and its removal.
C17_HandleMapSerialized ==
    /\ \A t \in Threads : ~workers[t].raised
    /\ \A t, u \in Threads : t # u => workers[t].removed \cap workers[u].removed = {}

\* The handles the last call removed
RemovedHandles == PreTracked \ DOMAIN processes

\* C18: when poll, terminate_hanging, wait on exit or wait on timeout has
\* removed a handle, an existing registry record of that agent id is not
\* running when the call returns, and is terminated when the dispatcher
\* killed the process.
C18_RemovalWritesThrough ==
    (/\ last.op \in {"poll", "terminate_hanging", "wait"}
     /\ last.path # "error"
     /\ ~last.raised) =>
        \A a \in RemovedHandles \cap DOMAIN agent_states :
            /\ agent_states[a].status # "running"
            /\ a \in DOMAIN last.signals => agent_states[a].status = "terminated"

\* C19: every result record monitor or wait returns is appended to the
\* message history exactly once, with the same agent_id, stdout, stderr and
\* exit_code.
C19_ResultAppended ==
    (last.op \in {"monitor", "wait"} /\ last.ret # None) =>
        /\ Len(last.appended) = 1
        /\ last.appended[1].agent_id = last.ret[1].agent_id
        /\ last.appended[1].stdout = last.ret[1].stdout
        /\ last.appended[1].stderr = last.ret[1].stderr
        /\ last.appended[1].exit_code = last.ret[1].exit_code

\* The child has read the command built from the arguments in command
CommandRead == command # None /\ command[1].read # None

ReadsBack(c) ==
    /\ c.read[1].child_mode
    /\ c.read[1].task_id = Some(c.task_id)
    /\ c.read[1].agent_name = Some(c.agent_name)
    /\ c.read[1].prompt = Some(c.prompt)

\* C20 as stated: for every agent_name, task_id, prompt and model (absent,
\* empty string or non-empty) the command carries the child-mode flag and the
\* reader recovers exactly the task_id, agent_name, prompt and model passed in.
C20_Original ==
    CommandRead =>
        /\ ReadsBack(command[1])
        /\ command[1].read[1].model = command[1].model

\* C20: the command carries the child-mode flag and the reader recovers the
\* task_id, agent_name and prompt passed in; it recovers the model when the
\* model is absent or non-empty, and recovers an absent model when the model
\* passed in is the empty string.
C20_CommandRoundTrips ==
    CommandRead =>
        /\ ReadsBack(command[1])
        /\ command[1].read[1].model =
               IF command[1].model = Some("") THEN None ELSE command[1].model

C20_Witness ==
    /\ CommandRead
    /\ command[1].model = Some("--prompt")
    /\ command[1].prompt = "--agent x"
    /\ command[1].read[1].model = command[1].model
    /\ command[1].read[1].prompt = Some(command[1].prompt)

\* C21: with failure threshold 3, record_failure in closed opens the breaker
\* exactly when it is the third in a row, so the breaker is never opened from
\* closed with fewer; allow_call on an open breaker returns false while the
\* time since the open transition has not exceeded the cooldown, and returns
\* true and moves the breaker to half_open once it has.
C21_OpensAtThreshold ==
    /\ (last.op = "record_failure" /\ last.pre_breaker.state = "closed") =>
           /\ breaker.state = "open" <=> streak >= failure_threshold
           /\ breaker.state = "open" => breaker.opened_at = now
           /\ breaker.state \in {"open", "closed"}
    /\ (last.op = "allow_call" /\ last.pre_breaker.state = "open") =>
           IF now - last.pre_breaker.opened_at > cooldown
           THEN last.ret = Some(TRUE) /\ breaker.state = "half_open"
           ELSE last.ret = Some(FALSE) /\ breaker = last.pre_breaker

C21_Witness ==
    /\ last.op = "allow_call"
    /\ last.pre_breaker.state = "open"
    /\ last.pre_breaker.failures = failure_threshold
    /\ streak = failure_threshold
    /\ last.ret = Some(TRUE)
    /\ breaker.state = "half_open"

\* C22: record_failure on a half_open breaker moves it to open and restarts
\* the open-duration clock, whatever the number of successes recorded in the
\* trial so far (0 up to trial count minus 1).
C22_HalfOpenFailureReopens ==
    (last.op = "record_failure" /\ last.pre_breaker.state = "half_open") =>
        /\ last.pre_breaker.successes \in 0..(trial_count - 1)
        /\ breaker.state = "open"
        /\ breaker.opened_at = now
        /\ ~allow_call(breaker, now).ret
        /\ \A t \in now..MaxClock :
               allow_call(breaker, t).ret <=> t - now > cooldown

C22_Witness ==
    /\ last.op = "record_failure"
    /\ last.pre_breaker.state = "half_open"
    /\ last.pre_breaker.successes = trial_count - 1
    /\ last.pre_breaker.opened_at < now
    /\ breaker.state = "open"
    /\ breaker.opened_at = now

\* C23: record_success on a closed breaker sets the failure counter to zero,
\* so a closed breaker opens only on the threshold-th failure in a row; on a
\* half_open breaker it closes the breaker exactly when the success counter
\* reaches the trial count, and then all counters are zero.
C23_SuccessResets ==
    /\ (last.op = "record_success" /\ last.pre_breaker.state = "closed") =>
           /\ breaker.state = "closed"
           /\ breaker.failures = 0
    /\ (last.op # "none" /\ last.pre_breaker.state = "closed" /\ breaker.state = "open") =>
           /\ last.op = "record_failure"
           /\ streak >= failure_threshold
    /\ (last.op = "record_success" /\ last.pre_breaker.state = "half_open") =>
           IF last.pre_breaker.successes + 1 = trial_count
           THEN /\ breaker.state = "closed"
                /\ breaker.failures = 0
                /\ breaker.successes = 0
           ELSE /\ breaker.state = "half_open"
                /\ breaker.successes = last.pre_breaker.successes + 1
                /\ breaker.successes < trial_count

C23_Witness ==
    /\ last.op = "record_success"
    /\ last.pre_breaker.state = "half_open"
    /\ last.pre_breaker.failures = failure_threshold
    /\ breaker.state = "closed"
    /\ breaker.failures = 0
    /\ breaker.successes = 0

\* The breaker refuses a call made now
Refuses(b) == b.state = "open" /\ now - b.opened_at <= cooldown

\* C24: call_with_retry asks the breaker before each attempt; when allow_call
\* is false the call fails at once with CircuitOpenError, the operation is
\* not invoked for that attempt and no retry attempt is consumed.  The
\* operation is never invoked while the breaker is open and its cooldown has
\* not elapsed.
C24_RejectedWithoutAttempt ==
    last.op = "retry_attempt" =>
        IF Refuses(last.pre_breaker)
        THEN /\ last.raised
             /\ retry.result = Some("CircuitOpenError")
             /\ retry.pc = "idle"
             /\ retry.invoked = last.args.invoked
             /\ retry.attempts_left = last.args.attempts_left
             /\ retry.log = last.args.log
             /\ breaker = last.pre_breaker
        ELSE /\ ~last.raised
             /\ retry.invoked = last.args.invoked + 1
             /\ Len(retry.log) = Len(last.args.log) + 1

\* a refusal in the middle of a call, after an attempt that failed
C24_Witness ==
    /\ last.op = "retry_attempt"
    /\ Refuses(last.pre_breaker)
    /\ last.args.invoked >= 1
    /\ last.args.attempts_left >= 1
    /\ retry.result = Some("CircuitOpenError")
    /\ retry.invoked = last.args.invoked

\* A finished call_with_retry with max_attempts = 3 of an operation that
\* fails twice and then succeeds
FailsTwiceThenSucceeds ==
    /\ retry.pc = "idle"
    /\ retry.result # None
    /\ retry.max_attempts = 3
    /\ retry.given[1] # "ok" /\ retry.given[2] # "ok" /\ retry.given[3] = "ok"

ReturnsAfterTwoFailures ==
    /\ retry.result = Some("ok")
    /\ retry.log = <<"failure", "failure", "success">>
    /\ retry.invoked = 3

C27_NoAutomaticRecovery ==
    [][\A s \in Servers :
          (is_quarantined(isolator, s)
           /\ ~(last'.op = "clear_quarantine" /\ last'.id = Some(s))) =>
              is_quarantined(isolator', s)]_vars

C27_Witness ==
    /\ is_quarantined(isolator, "s1")
    /\ isolator["s1"].quarantined_at # None
    /\ now - isolator["s1"].quarantined_at[1] > cooldown
    /\ last.op = "record_error"
    /\ last.pre_isolator["s1"].quarantined
    /\ breaker.state = "half_open"

\* C28: after clear_dag(), and after a DAG message with action "clear", the
\* view has no nodes and an empty execution order.
C28_ClearEmpties ==
    (\/ last.op = "clear_dag"
     \/ last.op = "process_dag_message" /\ last.path = "clear") =>
        /\ dag.nodes = EmptyDict
        /\ dag.execution_order = <<>>

\* C29: when a tracked handle reports no exit code and the OS reports its pid
\* as existing and not a zombie, then after poll() the handle is still
\* tracked, the registry record still exists and its status is running.
C29_AliveStaysRunning ==
    last.op = "poll" =>
        \A a \in AgentIds :
            (PollSawOs(a, "alive") /\ a \in PreRecorded) =>
                /\ a \in DOMAIN processes
                /\ a \in DOMAIN agent_states
                /\ agent_states[a].status = "running"

C29_Witness ==
    /\ last.op = "poll"
    /\ \E a \in AgentIds :
           /\ PollSawOs(a, "alive")
           /\ a \in PreRecorded
           /\ last.pre_states[a].status # "running"
           /\ a \in DOMAIN processes
           /\ agent_states[a].status = "running"

\* A running record without a handle in the dispatcher whose pid the OS
\* reports as absent or as a zombie during the poll()
Orphaned(a) ==
    /\ a \in PreRecorded \ PreTracked
    /\ last.pre_states[a].status = "running"
    /\ last.os[last.pre_states[a].pid] \in {"absent", "zombie"}

\* C30: poll() also reconciles the running records that have no handle in
\* the dispatcher: when the OS reports the pid of such a record as absent or
\* zombie, the record is terminated with a non-empty result after poll().
C30_SweepTerminatesOrphans ==
    last.op = "poll" =>
        \A a \in AgentIds :
            Orphaned(a) =>
                /\ a \in DOMAIN agent_states
                /\ agent_states[a].status = "terminated"
                /\ agent_states[a].result # None
                /\ agent_states[a].result[1] # ""

C30_Witness ==
    /\ last.op = "poll"
    /\ \E a \in AgentIds :
           /\ Orphaned(a)
           /\ last.os[last.pre_states[a].pid] = "zombie"
           /\ agent_states[a].status = "terminated"
           /\ agent_states[a].result = Some("Process became a zombie")

\* C31: wait(agent_id, timeout) waits with the caller's timeout whenever one
\* is given, 0 included, and with the dispatcher's timeout only when none is
\* given; wait on an id the dispatcher does not track returns nothing and
\* changes no state.
C31_CallerTimeoutUsed ==
    last.op = "wait" =>
        IF last.path = "unknown"
        THEN /\ last.ret = None
             /\ processes = last.pre_processes
             /\ agent_states = last.pre_states
        ELSE last.args["communicate"] =
                 IF last.args["timeout"] = None THEN Some(timeout) ELSE last.args["timeout"]

\* The handles a terminate_hanging() call found still running and older than
\* the timeout
WereHanging ==
    {a \in PreTracked : /\ last.pre_processes[a].exit = None
                        /\ now - last.pre_processes[a].start_time > timeout}

\* C32: terminate_hanging() removes exactly the tracked handles that are
\* still running and strictly older than the timeout, signals no other
\* handle and leaves it tracked as it was, and returns exactly the removed
\* ids.
C32_ExactlyTheHanging ==
    last.op = "terminate_hanging" =>
        /\ DOMAIN processes = PreTracked \ WereHanging
        /\ \A a \in DOMAIN processes : processes[a] = last.pre_processes[a]
        /\ DOMAIN last.signals = WereHanging
        /\ last.ret = WereHanging
        /\ last.ret = PreTracked \ DOMAIN processes

C32_Witness ==
    /\ last.op = "terminate_hanging"
    /\ last.ret = {"a1"}
    /\ "a2" \in DOMAIN processes
    /\ processes["a2"].exit # None
    /\ now - processes["a2"].start_time > timeout

\* The calls that end a process by force
ForcedEnd ==
    \/ last.op = "terminate_hanging"
    \/ last.op = "wait" /\ last.path = "timeout"

\* C33: in terminate_hanging() and in wait()'s timeout branch the kill is
\* sent only after the terminate signal and only to a process that did not
\* exit within the grace wait; the handle is removed either way.
C33_KillAfterGrace ==
    ForcedEnd =>
        \A a \in DOMAIN last.signals :
            /\ last.signals[a][1] = "terminate"
            /\ last.signals[a] =
                   IF a \in last.args["graceful"]
                   THEN <<"terminate">>
                   ELSE <<"terminate", "kill">>
            /\ a \in PreTracked
            /\ a \notin DOMAIN processes

C33_Witness ==
    /\ last.op = "terminate_hanging"
    /\ DOMAIN last.signals = {"a1", "a2"}
    /\ last.args["graceful"] = {"a1"}
    /\ last.signals["a1"] = <<"terminate">>
    /\ last.signals["a2"] = <<"terminate", "kill">>
    /\ DOMAIN processes = {}

\* The fields of a record that say which agent it is
Identity(state) ==
    <<state.pid, state.start_time, state.visible, state.model, state.session_info>>

\* C34: poll() and reconcile() add no record, remove none, and change no
\* record's pid, start_time, visible, model or session_info; an agent whose
\* handle poll() dropped is still in the registry.
C34_SweepKeepsRecords ==
    last.op \in {"poll", "reconcile"} =>
        /\ DOMAIN agent_states = PreRecorded
        /\ \A a \in PreRecorded : Identity(agent_states[a]) = Identity(last.pre_states[a])

C34_Witness ==
    /\ last.op = "poll"
    /\ "a1" \in PreTracked \ DOMAIN processes
    /\ "a2" \in DOMAIN processes
    /\ agent_states["a1"].status \in TerminalStatuses
    /\ agent_states["a2"].status = "running"
    /\ agent_states["a1"].start_time # agent_states["a2"].start_time

\* A call_with_retry that has ended
Ended == retry.pc = "idle" /\ retry.result # None

Failures(log) == Len(SelectSeq(log, LAMBDA x : x = "failure"))

\* The call returned the first success: every attempt before it failed with
\* a retryable error
FirstSuccess ==
    /\ retry.result = Some("ok")
    /\ retry.given[retry.invoked] = "ok"
    /\ \A i \in 1..(retry.invoked - 1) : retry.given[i] = "error"
    /\ retry.log[Len(retry.log)] = "success"

\* The call surfaced the failure of its last attempt: the attempts were used
\* up, or the error was not retryable
LastFailure ==
    /\ retry.result = Some("failed")
    /\ retry.given[retry.invoked] # "ok"
    /\ \A i \in 1..(retry.invoked - 1) : retry.given[i] = "error"
    /\ retry.invoked = retry.max_attempts \/ retry.given[retry.invoked] = "fatal"
    /\ retry.log[Len(retry.log)] = "failure"

\* At most max_attempts invocations, each one recorded once on the breaker,
\* each failure consuming one attempt, and a call that goes on has an attempt
\* left: a call ends after at most max_attempts attempts
AttemptsBounded ==
    /\ retry.invoked <= retry.max_attempts
    /\ Len(retry.log) = retry.invoked
    /\ retry.attempts_left = retry.max_attempts - Failures(retry.log)
    /\ retry.pc \in {"attempt", "wait"} =>
           /\ retry.attempts_left >= 1
           /\ retry.invoked < retry.max_attempts

\* A failed attempt records one failure on the breaker and one error on the
\* isolator; no other attempt touches the isolator
FailureRecordedOnce ==
    last.op = "retry_attempt" =>
        IF last.path = "failure"
        THEN /\ retry.log = Append(last.args.log, "failure")
             /\ breaker = record_failure(allow_call(last.pre_breaker, now).breaker, now)
             /\ isolator[RetryServer].total = last.pre_isolator[RetryServer].total + 1
             /\ \A s \in Servers \ {RetryServer} : isolator[s] = last.pre_isolator[s]
        ELSE isolator = last.pre_isolator

Range(seq) == {seq[i] : i \in DOMAIN seq}

\* C36: in a DAGView the links stay symmetric: c is among nodes[p].children
\* exactly when p is among nodes[c].parents, every linked id is a key of
\* nodes, and add_connection with an id that is not in nodes changes nothing.
C36_LinksSymmetric ==
    /\ \A p \in DOMAIN dag.nodes :
           /\ \A c \in Range(dag.nodes[p].children) :
                  c \in DOMAIN dag.nodes /\ p \in Range(dag.nodes[c].parents)
           /\ \A c \in Range(dag.nodes[p].parents) :
                  c \in DOMAIN dag.nodes /\ p \in Range(dag.nodes[c].children)
    /\ (/\ last.op = "add_connection"
        /\ \/ CallId \notin DOMAIN last.pre_dag.nodes
           \/ last.args["child_id"] \notin DOMAIN last.pre_dag.nodes) => dag = last.pre_dag

IsPrefix(s1, s2) == Len(s1) <= Len(s2) /\ SubSeq(s2, 1, Len(s1)) = s1

\* C39: execution_order lists each key of nodes exactly once and nothing
\* else, after construction and after every operation and message; adding a
\* node keeps the order of the ids already there, and for an existing id
\* the order does not change; update_node_status on an unknown id and a
\* message whose sidebar_type is not "dag" change nothing.
C39_OrderListsNodes ==
    /\ Range(dag.execution_order) = DOMAIN dag.nodes
    /\ Len(dag.execution_order) = Cardinality(DOMAIN dag.nodes)
    /\ (\/ last.op = "add_node"
        \/ last.op = "process_dag_message" /\ last.path = "add_node") =>
           /\ IsPrefix(last.pre_dag.execution_order, dag.execution_order)
           /\ Len(dag.execution_order) <= Len(last.pre_dag.execution_order) + 1
    /\ (last.op = "add_node" /\ CallId \in DOMAIN last.pre_dag.nodes) =>
           dag.execution_order = last.pre_dag.execution_order
    /\ (last.op = "update_node_status" /\ CallId \notin DOMAIN last.pre_dag.nodes) =>
           dag = last.pre_dag
    /\ (last.op = "process_dag_message" /\ last.path = "ignored") => dag = last.pre_dag

C39_Witness ==
    /\ last.op = "add_node"
    /\ CallId = "demo_1"
    /\ "n1" \in DOMAIN last.pre_dag.nodes
    /\ last.pre_dag.nodes["demo_1"] # dag.nodes["demo_1"]
    /\ dag.execution_order[1] = "demo_1"
    /\ Len(dag.execution_order) = 10

\* The thread is inside a with block of the registry lock
InWith(t) == threads[t].pc \notin {"idle", "acquire"}

\* The lock is held by exactly the thread inside a with block: a thread that
\* requests the lock does not hold it, a thread whose call has ended has
\* released it, and the holder can always take its next step
LockDiscipline ==
    /\ \A t \in Threads : InWith(t) <=> lock = Some(t)
    /\ lock # None => ENABLED ThreadRuns(lock[1])
    /\ (lock = None /\ \E t \in Threads : threads[t].pc = "acquire") =>
           \E t \in Threads : ENABLED Acquire(t)

Settled(a) ==
    /\ a \notin DOMAIN processes
    /\ a \in DOMAIN agent_states => agent_states[a].status # "running"

\* C37: when a spawned process has ended, by itself or by terminate_hanging
\* or wait's timeout branch, and poll() keeps being called with the OS
\* eventually answering without raising, its record eventually has a
\* non-running status and no handle of it is tracked.
C37_TerminalStateReachesRegistry ==
    \A a \in AgentIds : HasEnded(a) ~> Settled(a)

\* a poll() that finds the record of a killed process still running
C37_Witness ==
    /\ last.op = "poll"
    /\ \E a \in PreRecorded \ PreTracked :
           /\ last.pre_states[a].status = "running"
           /\ last.os[last.pre_states[a].pid] = "absent"
           /\ Settled(a)
           /\ agent_states[a].result = Some("Process unexpectedly terminated")

====
